---- MODULE Spec2Model ----
(***************************************************************************)
(* Verification model of the AMPL pipeline's parameter normalisation       *)
(* (atomsci/ddm/pipeline/parameter_parser.py) and of the neural-network    *)
(* epoch/fold training loop (atomsci/ddm/pipeline/model_wrapper.py).       *)
(*                                                                         *)
(* Python strings are sequences of one-character strings, so that split,   *)
(* strip, join, int() and float() are computed as Python computes them.    *)
(* Python values are tagged records; a float is a decimal m * 10^-e with   *)
(* trailing zeros removed (for decimals of at most three places the        *)
(* comparison  a + b >= 1.0  on IEEE doubles agrees with the exact one).   *)
(***************************************************************************)
EXTENDS Integers, Sequences, FiniteSets, TLC

\* ------------------------------------------------------------------------
\* Bounds of the model
\* ------------------------------------------------------------------------
MaxLen == 3          \* longest comma-separated list supplied for a parameter
MaxArgs == 4         \* longest free-form argument list
MaxDictItems == 2    \* most items of one level of an input mapping
MaxEpochs == 3       \* largest params.max_epochs of a training run
MaxFolds == 3        \* largest number of folds of a training run
MaxBaseline == 5     \* largest params.baseline_epoch of a training run
MaxClasses == 3      \* largest number of classes of a classification model

\* ------------------------------------------------------------------------
\* Python strings
\* ------------------------------------------------------------------------
Digits == {"0", "1", "2", "3", "4", "5", "6", "7", "8", "9"}

DigitVal(c) ==
  CASE c = "0" -> 0 [] c = "1" -> 1 [] c = "2" -> 2 [] c = "3" -> 3
    [] c = "4" -> 4 [] c = "5" -> 5 [] c = "6" -> 6 [] c = "7" -> 7
    [] c = "8" -> 8 [] c = "9" -> 9

DigitChar(n) ==
  CASE n = 0 -> "0" [] n = 1 -> "1" [] n = 2 -> "2" [] n = 3 -> "3"
    [] n = 4 -> "4" [] n = 5 -> "5" [] n = 6 -> "6" [] n = 7 -> "7"
    [] n = 8 -> "8" [] n = 9 -> "9"

Contains(s, c) == \E i \in 1..Len(s) : s[i] = c

\* str.split(d) for a one-character separator d: empty pieces are kept
RECURSIVE Split(_, _)
Split(s, d) ==
  IF ~Contains(s, d) THEN <<s>>
  ELSE LET i == CHOOSE i \in 1..Len(s) :
                  s[i] = d /\ \A j \in 1..(i - 1) : s[j] # d
       IN  <<SubSeq(s, 1, i - 1)>> \o Split(SubSeq(s, i + 1, Len(s)), d)

\* str.strip()
RECURSIVE Strip(_)
Strip(s) ==
  IF s # <<>> /\ Head(s) = " " THEN Strip(Tail(s))
  ELSE IF s # <<>> /\ s[Len(s)] = " " THEN Strip(SubSeq(s, 1, Len(s) - 1))
  ELSE s

\* sep.join(pieces), sep a string
RECURSIVE Join(_, _)
Join(pieces, sep) ==
  IF pieces = <<>> THEN <<>>
  ELSE IF Len(pieces) = 1 THEN pieces[1]
  ELSE pieces[1] \o sep \o Join(Tail(pieces), sep)

\* str.replace(a, b) for one-character a and b
Replace(s, a, b) == [i \in 1..Len(s) |-> IF s[i] = a THEN b ELSE s[i]]

RECURSIVE DigitsToNat(_)
DigitsToNat(s) ==
  IF s = <<>> THEN 0
  ELSE 10 * DigitsToNat(SubSeq(s, 1, Len(s) - 1)) + DigitVal(s[Len(s)])

RECURSIVE NatToDigits(_)
NatToDigits(n) ==
  IF n < 10 THEN <<DigitChar(n)>>
  ELSE NatToDigits(n \div 10) \o <<DigitChar(n % 10)>>

RECURSIVE Pow10(_)
Pow10(e) == IF e = 0 THEN 1 ELSE 10 * Pow10(e - 1)

\* ------------------------------------------------------------------------
\* Python values
\* ------------------------------------------------------------------------
None == [t |-> "none"]
StrV(s) == [t |-> "str", s |-> s]
IntV(n) == [t |-> "int", v |-> n]
BoolV(b) == [t |-> "bool", b |-> b]
ListV(l) == [t |-> "list", l |-> l]
DictV(d) == [t |-> "dict", d |-> d]

\* a float m * 10^-e, trailing zeros removed
RECURSIVE FloatV(_, _)
FloatV(m, e) ==
  IF e > 0 /\ m % 10 = 0 THEN FloatV(m \div 10, e - 1)
  ELSE [t |-> "float", m |-> m, e |-> e]

IsStr(x) == x.t = "str"
IsList(x) == x.t = "list"
IsNone(x) == x.t = "none"

\* a bool as the int it is in Python
AsNumber(x) == IF x.t = "bool" THEN IntV(IF x.b THEN 1 ELSE 0) ELSE x

\* Python's == on scalars: an int equals the float of the same value, and
\* True and False equal 1 and 0
PyEqScalar(x, y) ==
  LET a == AsNumber(x)
      b == AsNumber(y)
  IN  \/ a = b
      \/ a.t = "int" /\ b.t = "float" /\ b.e = 0 /\ b.m = a.v
      \/ a.t = "float" /\ b.t = "int" /\ a.e = 0 /\ a.m = b.v

\* Python's == on scalars and on lists of scalars
PyEq(x, y) ==
  IF x.t = "list" /\ y.t = "list"
  THEN /\ Len(x.l) = Len(y.l)
       /\ \A i \in 1..Len(x.l) : PyEqScalar(x.l[i], y.l[i])
  ELSE PyEqScalar(x, y)

\* a conversion that may raise: [ok |-> TRUE, val |-> v] or [ok |-> FALSE]
Ok(v) == [ok |-> TRUE, val |-> v]
Fail == [ok |-> FALSE]

\* int(s): surrounding blanks are ignored, then decimal digits only
ParseInt(s) ==
  LET u == Strip(s)
  IN  IF u # <<>> /\ \A i \in 1..Len(u) : u[i] \in Digits
      THEN Ok(IntV(DigitsToNat(u)))
      ELSE Fail

\* float(s): surrounding blanks are ignored, digits with at most one point
ParseFloat(s) ==
  LET u == Strip(s)
      parts == Split(u, ".")
  IN  IF /\ \A i \in 1..Len(u) : u[i] \in Digits \cup {"."}
         /\ Len(parts) <= 2
         /\ \E i \in 1..Len(u) : u[i] \in Digits
      THEN LET frac == IF Len(parts) = 2 THEN parts[2] ELSE <<>>
           IN  Ok(FloatV(DigitsToNat(parts[1] \o frac), Len(frac)))
      ELSE Fail

\* str(x); the items of a list are shown by repr, a str item in quotes
RECURSIVE PyStr(_)
PyStr(x) ==
  CASE x.t = "str" -> x.s
    [] x.t = "list" ->
         LET item(i) == IF x.l[i].t = "str"
                        THEN <<"'">> \o x.l[i].s \o <<"'">>
                        ELSE PyStr(x.l[i])
         IN  <<"[">> \o Join([i \in 1..Len(x.l) |-> item(i)], <<",", " ">>)
                 \o <<"]">>
    [] x.t = "none" -> <<"N", "o", "n", "e">>
    [] x.t = "bool" -> IF x.b THEN <<"T", "r", "u", "e">>
                       ELSE <<"F", "a", "l", "s", "e">>
    [] x.t = "int" -> NatToDigits(x.v)
    [] x.t = "float" ->
         LET ip == NatToDigits(x.m \div Pow10(x.e))
             fr == x.m % Pow10(x.e)
             fd == NatToDigits(fr)
             pad == [i \in 1..(x.e - Len(fd)) |-> "0"]
         IN  IF x.e = 0 THEN ip \o <<".", "0">>
             ELSE ip \o <<".">> \o pad \o fd

\* ------------------------------------------------------------------------
\* The parameter tables of parameter_parser.py
\* ------------------------------------------------------------------------
convert_to_float_list ==
  {"dropouts", "weight_init_stddevs", "bias_init_consts", "learning_rate",
   "umap_targ_wt", "umap_min_dist", "dropout_list", "weight_decay_penalty",
   "xgb_learning_rate", "xgb_gamma", "xgb_min_child_weight", "xgb_subsample",
   "xgb_colsample_bytree"}

convert_to_int_list ==
  {"layer_sizes", "rf_max_features", "rf_estimators", "rf_max_depth",
   "umap_dim", "umap_neighbors", "layer_nums", "node_nums",
   "xgb_max_depth", "xgb_n_estimators"}

convert_to_numeric_list == convert_to_float_list \cup convert_to_int_list

keep_as_list ==
  {"dropouts", "weight_init_stddevs", "bias_init_consts",
   "layer_sizes", "dropout_list", "layer_nums"}

not_a_list_outside_of_hyperparams ==
  {"learning_rate", "weight_decay_penalty", "xgb_learning_rate", "xgb_gamma",
   "xgb_min_child_weight", "xgb_subsample", "xgb_colsample_bytree",
   "xgb_max_depth", "xgb_n_estimators"}

convert_to_str_list ==
  {"response_cols", "model_type", "featurizer", "splitter", "umap_metric",
   "weight_decay_penalty_type", "descriptor_type"}

not_a_str_list_outside_of_hyperparams ==
  {"model_type", "featurizer", "splitter", "umap_metric",
   "weight_decay_penalty_type", "descriptor_type"}

\* the four layered parameters checked at the end of postprocess_args
LayeredParams ==
  {"layer_sizes", "dropouts", "weight_init_stddevs", "bias_init_consts"}

\* null_options of postprocess_args
null_options ==
  {<<"n", "u", "l", "l">>, <<"N", "u", "l", "l">>, <<"n", "o", "n", "e">>,
   <<"N", "o", "n", "e">>, <<"N", "/", "A">>, <<"n", "/", "a">>,
   <<"N", "a", "N">>, <<"n", "a", "n">>, <<"N", "A", "N">>,
   <<"N", "O", "N", "E">>, <<"N", "U", "L", "L">>, <<"N", "A">>}

\* null_options of dict_to_list (no 'NA')
dict_null_options == null_options \ {<<"N", "A">>}

true_options ==
  {<<"T", "r", "u", "e">>, <<"t", "r", "u", "e">>, <<"t", "u", "r", "e">>,
   <<"T", "R", "U", "E">>, <<"T", "u", "r", "e">>}

false_options ==
  {<<"F", "a", "l", "s", "e">>, <<"f", "a", "l", "s", "e">>,
   <<"f", "l", "a", "s", "e">>, <<"F", "A", "L", "S", "E">>,
   <<"F", "l", "a", "s", "e">>}

default_false ==
  {"previously_split", "use_shortlist", "datastore", "save_results",
   "verbose", "hyperparam", "split_only", "rerun"}

\* mutant of default_true: no flag is treated as true by default
default_true_None == {}

default_true == {"transformers", "previously_featurized", "uncertainty"}

S_train_valid_test ==
  <<"t", "r", "a", "i", "n", "_", "v", "a", "l", "i", "d", "_", "t", "e", "s", "t">>
S_k_fold_cv == <<"k", "_", "f", "o", "l", "d", "_", "c", "v">>
S_regression == <<"r", "e", "g", "r", "e", "s", "s", "i", "o", "n">>
S_classification ==
  <<"c", "l", "a", "s", "s", "i", "f", "i", "c", "a", "t", "i", "o", "n">>
S_LC == <<"L", "C">>
S_twintron == <<"t", "w", "i", "n", "t", "r", "o", "n", "-", "b", "l", "u", "e">>
S_roc_auc == <<"r", "o", "c", "_", "a", "u", "c">>
S_r2 == <<"r", "2">>

\* ------------------------------------------------------------------------
\* get_parser: the modelled arguments, in the order add_argument adds them
\* ------------------------------------------------------------------------
DestOrder ==
  <<"bucket", "dataset_key", "datastore", "response_cols", "save_results",
    "descriptor_type", "featurizer", "model_choice_score_type", "model_type",
    "prediction_type", "previously_featurized", "uncertainty", "verbose",
    "optimizer_type", "mordred_cpus", "baseline_epoch", "bias_init_consts", "dropouts",
    "layer_sizes", "learning_rate", "max_epochs", "weight_decay_penalty",
    "weight_decay_penalty_type", "weight_init_stddevs", "rf_estimators",
    "rf_max_depth", "rf_max_features", "previously_split", "split_strategy",
    "split_test_frac", "split_valid_frac", "splitter", "transformers",
    "umap_dim", "umap_metric", "umap_min_dist", "umap_neighbors",
    "umap_targ_wt", "xgb_colsample_bytree", "xgb_gamma", "xgb_learning_rate",
    "xgb_max_depth", "xgb_min_child_weight", "xgb_n_estimators",
    "xgb_subsample", "model_filter", "system", "config_file", "dropout_list",
    "hyperparam", "layer_nums", "node_nums", "rerun", "split_only",
    "use_shortlist">>

Dests == {DestOrder[i] : i \in 1..Len(DestOrder)}

StoreTrueDests ==
  {"datastore", "save_results", "verbose", "previously_split", "hyperparam",
   "rerun", "split_only", "use_shortlist"}

StoreFalseDests == {"previously_featurized", "uncertainty", "transformers"}

IntTypedDests == {"mordred_cpus", "baseline_epoch", "max_epochs"}

FloatTypedDests == {"split_test_frac", "split_valid_frac"}

ArgChoices(k) ==
  CASE k = "split_strategy" -> {S_train_valid_test, S_k_fold_cv}
    [] k = "prediction_type" -> {S_regression, S_classification}
    [] k = "system" -> {S_LC, S_twintron}
    [] OTHER -> {}

ArgDefault(k) ==
  CASE k = "learning_rate" -> StrV(<<"0", ".", "0", "0", "0", "5">>)
    [] k = "rf_estimators" -> StrV(<<"5", "0", "0">>)
    [] k = "rf_max_features" -> StrV(<<"3", "2">>)
    [] k = "umap_dim" -> StrV(<<"1", "0">>)
    [] k = "umap_min_dist" -> StrV(<<"0", ".", "0", "5">>)
    [] k = "umap_neighbors" -> StrV(<<"2", "0">>)
    [] k = "umap_targ_wt" -> StrV(<<"0", ".", "0">>)
    [] k = "weight_decay_penalty" -> StrV(<<"0", ".", "0", "0", "0", "1">>)
    [] k = "xgb_colsample_bytree" -> StrV(<<"1", ".", "0">>)
    [] k = "xgb_gamma" -> StrV(<<"0", ".", "0">>)
    [] k = "xgb_learning_rate" -> StrV(<<"0", ".", "1">>)
    [] k = "xgb_max_depth" -> StrV(<<"6">>)
    [] k = "xgb_min_child_weight" -> StrV(<<"1", ".", "0">>)
    [] k = "xgb_n_estimators" -> StrV(<<"1", "0", "0">>)
    [] k = "xgb_subsample" -> StrV(<<"1", ".", "0">>)
    [] k = "descriptor_type" -> StrV(<<"m", "o", "e">>)
    [] k = "splitter" -> StrV(<<"s", "c", "a", "f", "f", "o", "l", "d">>)
    [] k = "umap_metric" ->
         StrV(<<"e", "u", "c", "l", "i", "d", "e", "a", "n">>)
    [] k = "weight_decay_penalty_type" -> StrV(<<"l", "2">>)
    [] k = "bucket" -> StrV(<<"g", "s", "k", "_", "m", "l">>)
    [] k = "optimizer_type" -> StrV(<<"a", "d", "a", "m">>)
    [] k = "split_strategy" -> StrV(S_train_valid_test)
    [] k = "prediction_type" -> StrV(S_regression)
    [] k = "system" -> StrV(S_twintron)
    [] k = "split_valid_frac" -> FloatV(1, 1)
    [] k = "split_test_frac" -> FloatV(1, 1)
    [] k = "max_epochs" -> IntV(30)
    [] k = "baseline_epoch" -> IntV(30)
    [] k \in StoreTrueDests -> BoolV(FALSE)
    [] k \in StoreFalseDests -> BoolV(TRUE)
    [] OTHER -> None

\* ------------------------------------------------------------------------
\* Command-line tokens: "--key" is Opt(key), anything else is a value
\* ------------------------------------------------------------------------
Opt(k) == [opt |-> TRUE, k |-> k]
Val(s) == [opt |-> FALSE, s |-> s]

\* "--" in x
HasDashDash(tok) ==
  \/ tok.opt
  \/ \E i \in 1..(Len(tok.s) - 1) : tok.s[i] = "-" /\ tok.s[i + 1] = "-"

\* the type= and choices= conversion argparse applies to one value
ConvertArg(k, s) ==
  IF k \in IntTypedDests THEN ParseInt(s)
  ELSE IF k \in FloatTypedDests THEN ParseFloat(s)
  ELSE IF ArgChoices(k) # {} /\ s \notin ArgChoices(k) THEN Fail
  ELSE Ok(StrV(s))

\* parser.parse_args(args): Fail is argparse's error exit.  Option tokens are
\* full option names (abbreviations and the short forms are not modelled).
RECURSIVE ParseArgsFrom(_, _, _)
ParseArgsFrom(argv, i, ns) ==
  IF i > Len(argv) THEN Ok(ns)
  ELSE LET tok == argv[i]
       IN  IF ~tok.opt THEN Fail
           ELSE IF tok.k \notin Dests THEN Fail
           ELSE IF tok.k \in StoreTrueDests
             THEN ParseArgsFrom(argv, i + 1, [ns EXCEPT ![tok.k] = BoolV(TRUE)])
           ELSE IF tok.k \in StoreFalseDests
             THEN ParseArgsFrom(argv, i + 1, [ns EXCEPT ![tok.k] = BoolV(FALSE)])
           ELSE IF i + 1 > Len(argv) THEN Fail
           ELSE IF argv[i + 1].opt THEN Fail
           ELSE LET c == ConvertArg(tok.k, argv[i + 1].s)
                IN  IF c.ok
                    THEN ParseArgsFrom(argv, i + 2, [ns EXCEPT ![tok.k] = c.val])
                    ELSE Fail

parse_args(argv) == ParseArgsFrom(argv, 1, [k \in Dests |-> ArgDefault(k)])

\* mutant of Duplicates: only a third occurrence counts
Duplicates_MoreThanTwo(argv) ==
  LET just_args == SelectSeq(argv, HasDashDash)
      count(x) == Cardinality({i \in 1..Len(just_args) : just_args[i] = x})
  IN  {just_args[i] : i \in {j \in 1..Len(just_args) : count(just_args[j]) > 2}}

\* the duplicate check at the head of parse_command_line
Duplicates(argv) ==
  LET just_args == SelectSeq(argv, HasDashDash)
      count(x) == Cardinality({i \in 1..Len(just_args) : just_args[i] = x})
  IN  {just_args[i] : i \in {j \in 1..Len(just_args) : count(just_args[j]) > 1}}

\* ------------------------------------------------------------------------
\* postprocess_args
\* ------------------------------------------------------------------------
Err(e) == [ok |-> FALSE, err |-> e]

\* the first loop: null strings become None, "@" becomes a blank
NullAndSpaces(ns) ==
  [k \in DOMAIN ns |->
     IF IsStr(ns[k])
     THEN IF ns[k].s \in null_options THEN None
          ELSE StrV(Replace(ns[k].s, "@", " "))
     ELSE ns[k]]

\* a + b >= 1.0 on floats a and b
SumAtLeastOne(a, b) ==
  LET e == IF a.e > b.e THEN a.e ELSE b.e
  IN  a.m * Pow10(e - a.e) + b.m * Pow10(e - b.e) >= Pow10(e)

\* mutant of SplitCheckFails: a sum of exactly 1.0 passes
SplitCheckFails_Strict(ns) ==
  LET a == ns.split_valid_frac
      b == ns.split_test_frac
      e == IF a.e > b.e THEN a.e ELSE b.e
  IN  IF ns.split_strategy = StrV(S_train_valid_test)
      THEN a.m * Pow10(e - a.e) + b.m * Pow10(e - b.e) > Pow10(e)
      ELSE IF ns.split_strategy = StrV(S_k_fold_cv)
      THEN SumAtLeastOne(ns.split_test_frac, FloatV(0, 0))
      ELSE FALSE

\* the split-fraction check: TRUE when it raises
SplitCheckFails(ns) ==
  IF ns.split_strategy = StrV(S_train_valid_test)
  THEN SumAtLeastOne(ns.split_valid_frac, ns.split_test_frac)
  ELSE IF ns.split_strategy = StrV(S_k_fold_cv)
  THEN SumAtLeastOne(ns.split_test_frac, FloatV(0, 0))
  ELSE FALSE

\* the conditional default of model_choice_score_type
ScoreTypeDefault(ns) ==
  IF IsNone(ns.model_choice_score_type)
  THEN [ns EXCEPT !.model_choice_score_type =
          IF ns.prediction_type = StrV(S_classification)
          THEN StrV(S_roc_auc) ELSE StrV(S_r2)]
  ELSE ns

\* mutant of ConvertPieces: every piece is read as a float
ConvertPieces_AllFloat(k, pieces) ==
  IF \A i \in 1..Len(pieces) : ParseFloat(Strip(pieces[i])).ok
  THEN Ok([i \in 1..Len(pieces) |-> ParseFloat(Strip(pieces[i])).val])
  ELSE Err("ValueError")

\* [int(x.strip()) for x in pieces] or [float(x.strip()) for x in pieces]
ConvertPieces(k, pieces) ==
  LET conv(s) == IF k \in convert_to_int_list THEN ParseInt(Strip(s))
                 ELSE ParseFloat(Strip(s))
  IN  IF \A i \in 1..Len(pieces) : conv(pieces[i]).ok
      THEN Ok([i \in 1..Len(pieces) |-> conv(pieces[i]).val])
      ELSE Err("ValueError")

\* mutant of NormalCollapse: the length is not looked at
NormalCollapse_First(k, newlist) ==
  IF k \notin keep_as_list THEN newlist[1] ELSE ListV(newlist)

\* the collapse rule of normal mode: a scalar or a list
NormalCollapse(k, newlist) ==
  IF Len(newlist) = 1 /\ k \notin keep_as_list THEN newlist[1]
  ELSE ListV(newlist)

\* mutant of NormalNumeric: the never-a-list check is left out
NormalNumeric_NoListCheck(k, v) ==
  LET c == ConvertPieces(k, Split(v.s, ","))
  IN  IF ~c.ok THEN c
      ELSE Ok(IF Len(c.val) = 1 /\ k \notin keep_as_list THEN c.val[1]
              ELSE ListV(c.val))

\* normal mode, one numeric parameter with a non-None value
NormalNumeric(k, v) ==
  LET c == ConvertPieces(k, Split(v.s, ","))
  IN  IF ~c.ok THEN c
      ELSE LET r == NormalCollapse(k, c.val)
           IN  IF k \in not_a_list_outside_of_hyperparams /\ IsList(r)
               THEN Err("not_a_list")
               ELSE Ok(r)

\* mutant of HyperCollapse: only the first group is kept
HyperCollapse_FirstGroup(k, newlist) ==
  IF Len(newlist[1]) = 1 /\ k \notin keep_as_list THEN newlist[1][1]
  ELSE ListV(newlist[1])

\* mutant of HyperCollapse: a single value is never taken out of its list
HyperCollapse_KeepList(k, newlist) ==
  IF Len(newlist) = 1 THEN ListV(newlist[1])
  ELSE ListV([i \in 1..Len(newlist) |-> ListV(newlist[i])])

\* the collapse rule of hyperparameter mode
HyperCollapse(k, newlist) ==
  IF Len(newlist) = 1
  THEN IF Len(newlist[1]) = 1 /\ k \notin keep_as_list THEN newlist[1][1]
       ELSE ListV(newlist[1])
  ELSE ListV([i \in 1..Len(newlist) |-> ListV(newlist[i])])

\* hyperparameter mode, one numeric parameter with a non-None value
HyperNumeric(k, v) ==
  LET current_value == Split(v.s, " ")
      conv(i) == ConvertPieces(k, Split(current_value[i], ","))
  IN  IF \A i \in 1..Len(current_value) : conv(i).ok
      THEN Ok(HyperCollapse(k, [i \in 1..Len(current_value) |-> conv(i).val]))
      ELSE Err("ValueError")

\* mutant of HyperStr: the value is not split
HyperStr_NoSplit(k, v) == StrV(Strip(v.s))

\* hyperparameter mode, one string parameter with a non-None value
HyperStr(k, v) ==
  LET pieces == Split(v.s, ",")
      items == [i \in 1..Len(pieces) |-> StrV(Strip(pieces[i]))]
  IN  IF Len(items) = 1 /\ k # "response_cols" THEN items[1]
      ELSE ListV(items)

\* the check for a comma or blank in a never-a-list string parameter
StrListCheckFails(ns) ==
  \E k \in not_a_str_list_outside_of_hyperparams :
     /\ ~IsNone(ns[k])
     /\ (Contains(ns[k].s, ",") \/ Contains(ns[k].s, " "))

\* the final check of the layered parameters: TRUE when it raises
LayerCheckFails(ns) ==
  /\ ~IsNone(ns.layer_sizes)
  /\ LET nlayers == Len(ns.layer_sizes.l)
     IN  \/ ~IsNone(ns.dropouts) /\ Len(ns.dropouts.l) # nlayers
         \/ ~IsNone(ns.weight_init_stddevs)
              /\ Len(ns.weight_init_stddevs.l) # nlayers
         \/ ~IsNone(ns.bias_init_consts)
              /\ Len(ns.bias_init_consts.l) # nlayers

\* the hyperparam branch; every failure in it is a ValueError
HyperConvert(ns) ==
  LET n1 == [k \in DOMAIN ns |->
               IF k \in convert_to_str_list /\ ~IsNone(ns[k])
               THEN HyperStr(k, ns[k]) ELSE ns[k]]
      todo == {k \in convert_to_numeric_list : ~IsNone(n1[k])}
  IN  IF \E k \in todo : ~HyperNumeric(k, n1[k]).ok
      THEN {Err("ValueError")}
      ELSE {Ok([k \in DOMAIN n1 |->
                  IF k \in todo THEN HyperNumeric(k, n1[k]).val ELSE n1[k]])}

\* the normal branch.  The numeric loop runs over a set, whose order Python
\* does not fix: any failing parameter may be the one that raises.
NormalConvert(ns) ==
  LET todo == {k \in convert_to_numeric_list : ~IsNone(ns[k])}
      bad == {k \in todo : ~NormalNumeric(k, ns[k]).ok}
      n1 == [k \in DOMAIN ns |->
               IF k \in todo THEN NormalNumeric(k, ns[k]).val ELSE ns[k]]
      n2 == IF IsNone(n1.response_cols) THEN n1
            ELSE LET pieces == Split(n1.response_cols.s, ",")
                 IN  [n1 EXCEPT !.response_cols =
                        ListV([i \in 1..Len(pieces) |-> StrV(pieces[i])])]
  IN  IF bad # {} THEN {Err(NormalNumeric(k, ns[k]).err) : k \in bad}
      ELSE IF StrListCheckFails(n1) THEN {Err("not_a_str_list")}
      ELSE IF LayerCheckFails(n2) THEN {Err("layer_length")}
      ELSE {Ok(n2)}

\* postprocess_args(parsed_args): the set of its possible outcomes.  Reading
\* the model_filter file is an external call: it fails or yields a mapping.
postprocess_args(parsed_args) ==
  LET n1 == NullAndSpaces(parsed_args)
      filtered == IF IsNone(n1.model_filter) THEN {Ok(n1)}
                  ELSE {Err("model_filter"),
                        Ok([n1 EXCEPT !.model_filter = DictV(<<>>)])}
      after(n) ==
        IF SplitCheckFails(n) THEN {Err("split")}
        ELSE LET n2 == ScoreTypeDefault(n)
             IN  IF n2.hyperparam = BoolV(TRUE) THEN HyperConvert(n2)
                 ELSE NormalConvert(n2)
  IN  UNION {IF r.ok THEN after(r.val) ELSE {r} : r \in filtered}

\* ------------------------------------------------------------------------
\* Python dicts: a sequence of items [k |-> key, v |-> value], keys distinct
\* ------------------------------------------------------------------------
Item(k, v) == [k |-> k, v |-> v]
DictKeys(d) == [i \in 1..Len(d) |-> d[i].k]
DictHas(d, k) == \E i \in 1..Len(d) : d[i].k = k
DictGet(d, k) == d[CHOOSE i \in 1..Len(d) : d[i].k = k].v

\* d[k] = v: an existing key keeps its place
DictSet(d, k, v) ==
  IF DictHas(d, k)
  THEN [i \in 1..Len(d) |-> IF d[i].k = k THEN Item(k, v) ELSE d[i]]
  ELSE Append(d, Item(k, v))

\* del d[k]
DictDel(d, k) == LET keep(it) == it.k # k IN SelectSeq(d, keep)

\* mutant of FlattenInto: a key that is already held keeps its first value
RECURSIVE FlattenInto_FirstWins(_, _)
FlattenInto_FirstWins(items, acc) ==
  IF items = <<>> THEN acc
  ELSE LET it == Head(items)
       IN  IF it.v.t = "dict"
           THEN FlattenInto_FirstWins(Tail(items),
                                      FlattenInto_FirstWins(it.v.d, acc))
           ELSE LET warn == /\ DictHas(acc.d, it.k)
                            /\ ~PyEq(DictGet(acc.d, it.k), it.v)
                IN  FlattenInto_FirstWins(Tail(items),
                      [d |-> IF DictHas(acc.d, it.k) THEN acc.d
                             ELSE DictSet(acc.d, it.k, it.v),
                       w |-> IF warn
                             THEN Append(acc.w, [kind |-> "dup", key |-> it.k])
                             ELSE acc.w])

\* flatten_dict(inp_dict, newdict): the flattened dict and the warnings logged
RECURSIVE FlattenInto(_, _)
FlattenInto(items, acc) ==
  IF items = <<>> THEN acc
  ELSE LET it == Head(items)
       IN  IF it.v.t = "dict"
           THEN FlattenInto(Tail(items), FlattenInto(it.v.d, acc))
           ELSE LET warn == /\ DictHas(acc.d, it.k)
                            /\ ~PyEq(DictGet(acc.d, it.k), it.v)
                IN  FlattenInto(Tail(items),
                      [d |-> DictSet(acc.d, it.k, it.v),
                       w |-> IF warn
                             THEN Append(acc.w, [kind |-> "dup", key |-> it.k])
                             ELSE acc.w])

flatten_dict(inp_dict) == FlattenInto(inp_dict, [d |-> <<>>, w |-> <<>>])

\* replace_json_names_dict / optional_names_dict, in their order
AliasOrder == <<"dataset_bucket", "feat_type", "y", "optimizer">>

AliasTarget(k) ==
  CASE k = "dataset_bucket" -> "bucket"
    [] k = "feat_type" -> "featurizer"
    [] k = "y" -> "response_cols"
    [] k = "optimizer" -> "optimizer_type"

\* for key, vals in ...: if key in orig_keys: d[vals] = d.pop(key)
RECURSIVE RenameFrom(_, _, _)
RenameFrom(d, orig_keys, i) ==
  IF i > Len(AliasOrder) THEN d
  ELSE LET a == AliasOrder[i]
       IN  IF a \in orig_keys
           THEN RenameFrom(DictSet(DictDel(d, a), AliasTarget(a), DictGet(d, a)),
                           orig_keys, i + 1)
           ELSE RenameFrom(d, orig_keys, i + 1)

\* mutant of RenameAliases: a canonical key that is present keeps its value
RECURSIVE RenameKeepingFrom(_, _, _)
RenameKeepingFrom(d, orig_keys, i) ==
  IF i > Len(AliasOrder) THEN d
  ELSE LET a == AliasOrder[i]
       IN  IF a \in orig_keys
           THEN RenameKeepingFrom(
                  IF DictHas(d, AliasTarget(a)) THEN DictDel(d, a)
                  ELSE DictSet(DictDel(d, a), AliasTarget(a), DictGet(d, a)),
                  orig_keys, i + 1)
           ELSE RenameKeepingFrom(d, orig_keys, i + 1)

RenameAliases_KeepCanonical(d) ==
  RenameKeepingFrom(d, {d[i].k : i \in 1..Len(d)}, 1)

RenameAliases(d) == RenameFrom(d, {d[i].k : i \in 1..Len(d)}, 1)

\* dict_to_list(inp_dictionary, replace_spaces)
RECURSIVE DictToListItems(_, _)
DictToListItems(items, replace_spaces) ==
  IF items = <<>> THEN <<>>
  ELSE LET key == Head(items).k
           value == Head(items).v
           rest == DictToListItems(Tail(items), replace_spaces)
           out(s) == IF replace_spaces THEN Replace(s, " ", "@") ELSE s
       IN  IF key \in default_false
           THEN (IF PyStr(value) \in true_options THEN <<Opt(key)>> ELSE <<>>)
                  \o rest
           ELSE IF key \in default_true
           THEN (IF PyStr(value) \in false_options THEN <<Opt(key)>> ELSE <<>>)
                  \o rest
           ELSE IF PyStr(value) \in dict_null_options
           THEN <<Opt(key), Val(<<"N", "o", "n", "e">>)>> \o rest
           ELSE IF IsList(value)
           THEN <<Opt(key),
                  Val(out(Join([i \in 1..Len(value.l) |-> PyStr(value.l[i])],
                               <<",">>)))>> \o rest
           ELSE <<Opt(key), Val(out(PyStr(value)))>> \o rest

dict_to_list(inp_dictionary, replace_spaces) ==
  DictToListItems(RenameAliases(inp_dictionary), replace_spaces)

\* mutant of KeepAccepted: nothing is filtered out
KeepAccepted_KeepAll(flat_dict) == [newdict |-> flat_dict, extra_keys |-> <<>>]

\* the filter both parse_namespace and parse_config_file apply: the accepted
\* items in the parser's order, and the keys that are dropped
KeepAccepted(flat_dict) ==
  LET kept(k) == DictHas(flat_dict, k)
      keep == SelectSeq(DestOrder, kept)
      extra(k) == k \notin Dests
  IN  [newdict |-> [i \in 1..Len(keep) |-> Item(keep[i], DictGet(flat_dict, keep[i]))],
       extra_keys |-> SelectSeq(DictKeys(flat_dict), extra)]

ExtraWarning(extra_keys) ==
  IF Len(extra_keys) > 0 THEN <<[kind |-> "extra", keys |-> extra_keys]>>
  ELSE <<>>

\* parse_namespace(namespace_params): the argument list and the warnings
parse_namespace(namespace_params) ==
  LET flat == flatten_dict(namespace_params)
      flat_dict == RenameAliases(flat.d)
      f == KeepAccepted(flat_dict)
  IN  [argv |-> dict_to_list(f.newdict, FALSE),
       w |-> flat.w \o ExtraWarning(f.extra_keys)]

\* parse_config_file(config_file_path), config the mapping read from the file
parse_config_file(config, path) ==
  LET flat == flatten_dict(config)
      flat_dict == RenameAliases(flat.d)
      f == KeepAccepted(flat_dict)
  IN  [argv |-> dict_to_list(DictSet(f.newdict, "config_file", StrV(path)), FALSE),
       w |-> flat.w \o ExtraWarning(f.extra_keys)]

\* ------------------------------------------------------------------------
\* wrapper
\* ------------------------------------------------------------------------
IndexOf(list, x) == CHOOSE i \in 1..Len(list) :
                      list[i] = x /\ \A j \in 1..(i - 1) : list[j] # x

RemoveAt(list, i, n) == SubSeq(list, 1, i - 1) \o SubSeq(list, i + n, Len(list))

\* the loop that drops from the config file's arguments those the command
\* line gives again
RECURSIVE DropOverridden(_, _)
DropOverridden(list_inp, just_args) ==
  IF just_args = <<>> THEN Ok(list_inp)
  ELSE LET item == Head(just_args)
       IN  IF \E i \in 1..Len(list_inp) : list_inp[i] = item
           THEN LET idx == IndexOf(list_inp, item)
                IN  IF idx + 1 > Len(list_inp) THEN Err("IndexError")
                    ELSE IF HasDashDash(list_inp[idx + 1])
                    THEN DropOverridden(RemoveAt(list_inp, idx, 1), Tail(just_args))
                    ELSE DropOverridden(RemoveAt(list_inp, idx, 2), Tail(just_args))
           ELSE DropOverridden(list_inp, Tail(just_args))

\* wrapper(inp_arg) up to its call of parse_command_line: the argument list
\* it passes on and the warnings logged, or the error raised.  An input is
\* [form, d, a]: a mapping d, or a list a of tokens (d is then the content
\* of the config file the list names, if it names one), or a Namespace whose
\* attributes are the items of d.
wrapper(inp_arg) ==
  IF inp_arg.form \in {"dict", "namespace"}
  THEN LET r == parse_namespace(inp_arg.d)
       IN  [ok |-> TRUE, argv |-> r.argv, w |-> r.w]
  ELSE IF Len(inp_arg.a) = 0 THEN Err("IndexError")
  ELSE IF inp_arg.a[1] \in {Opt("config_file"), Opt("config")}
  THEN IF Len(inp_arg.a) < 2 THEN Err("IndexError")
       ELSE IF inp_arg.a[2].opt THEN Err("IOError")
       ELSE LET r == parse_config_file(inp_arg.d, inp_arg.a[2].s)
                rest == SubSeq(inp_arg.a, 3, Len(inp_arg.a))
                c == DropOverridden(r.argv, SelectSeq(rest, HasDashDash))
            IN  IF Len(inp_arg.a) > 2
                THEN IF c.ok
                     THEN [ok |-> TRUE, argv |-> c.val \o rest, w |-> r.w]
                     ELSE c
                ELSE [ok |-> TRUE, argv |-> r.argv, w |-> r.w]
  ELSE IF Len(inp_arg.a) = 1 THEN Err("eval")
  ELSE [ok |-> TRUE, argv |-> inp_arg.a, w |-> <<>>]

\* ------------------------------------------------------------------------
\* The inputs of a normalisation run
\* ------------------------------------------------------------------------
DictInput(d) == [form |-> "dict", d |-> d, a |-> <<>>]
ListInput(a) == [form |-> "list", d |-> <<>>, a |-> a]

\* vars(P) of a parameter object P: its attributes in the parser's order
NamespaceInput(P) ==
  [form |-> "namespace",
   d |-> [i \in 1..Len(DestOrder) |-> Item(DestOrder[i], P[DestOrder[i]])],
   a |-> <<>>]

Letters == <<"a", "b", "c", "d", "e">>

\* the i-th item supplied for parameter k, as a value
ItemVal(k, i) ==
  IF k \in convert_to_int_list THEN IntV(16 * i)
  ELSE IF k \in convert_to_float_list THEN FloatV(i, 1)
  ELSE StrV(<<Letters[i]>>)

ItemList(k, n) == [i \in 1..n |-> ItemVal(k, i)]

\* the same items as a comma-separated string
CsvOf(k, n) == Join([i \in 1..n |-> PyStr(ItemVal(k, i))], <<",">>)

HyperFlag == {<<>>, <<Opt("hyperparam")>>}

LayeredOrder ==
  <<"layer_sizes", "dropouts", "weight_init_stddevs", "bias_init_consts">>

\* the four layered parameters, each absent or given with 1..MaxLen items
RECURSIVE LayeredArgv(_, _)
LayeredArgv(f, i) ==
  IF i > Len(LayeredOrder) THEN <<>>
  ELSE LET k == LayeredOrder[i]
       IN  (IF f[k] = 0 THEN <<>> ELSE <<Opt(k), Val(CsvOf(k, f[k]))>>)
             \o LayeredArgv(f, i + 1)

LayeredInputs ==
  {ListInput(LayeredArgv(f, 1) \o h) :
     f \in [LayeredParams -> 0..MaxLen], h \in HyperFlag}

FracStrs ==
  {<<"0", ".", "3">>, <<"0", ".", "5">>, <<"0", ".", "6">>,
   <<"0", ".", "4", "5">>, <<"1", ".", "0">>}

SplitInputs ==
  LET opt(k, vals) == {<<>>} \cup {<<Opt(k), Val(v)>> : v \in vals}
  IN  {ListInput(s \o v \o x) :
         s \in opt("split_strategy", {S_train_valid_test, S_k_fold_cv}),
         v \in opt("split_valid_frac", FracStrs),
         x \in opt("split_test_frac", FracStrs)}

OddNumStrs ==
  {<<" ", "5">>, <<"5", " ">>, <<"5", " ", "6">>, <<"5", ",">>,
   <<"5", ",", "6", " ", "7", ",", "8">>, <<"5", "@", "6">>, <<"5", "@">>,
   <<"1", " ", "2", " ", "3">>, <<"a", "b", "c">>, <<"N", "o", "n", "e">>}

OddStrStrs ==
  {<<"N", "N">>, <<"N", "N", ",", "R", "F">>, <<"N", "N", " ", "R", "F">>,
   <<"N", "N", "@", "R", "F">>, <<" ", "N", "N">>, <<"N", "o", "n", "e">>}

\* one list parameter given one value, with or without --hyperparam
SingleInputs ==
  UNION {{ListInput(<<Opt(k), Val(v)>> \o h) :
            v \in {CsvOf(k, n) : n \in 1..MaxLen} \cup OddNumStrs,
            h \in HyperFlag} : k \in convert_to_numeric_list}
  \cup
  {ListInput(<<Opt(k), Val(v)>> \o h) :
     k \in convert_to_str_list, v \in OddStrStrs, h \in HyperFlag}

TokenPool ==
  {Opt("bucket"), Opt("hyperparam"), Opt("layer_sizes"), Opt("foo"),
   Val(<<"1", ",", "2">>)}

\* free-form argument lists of at most MaxArgs tokens
TokenInputs ==
  {ListInput(a) : a \in UNION {[1..n -> TokenPool] : n \in 0..MaxArgs}}

\* a mapping with one list-valued field
ListFieldInputs ==
  {DictInput(<<Item(k, ListV(ItemList(k, n)))>>) :
     k \in convert_to_numeric_list \cup {"response_cols"}, n \in 0..MaxLen}

Leaves ==
  {Item("bucket", StrV(<<"a">>)), Item("bucket", StrV(<<"b">>)),
   Item("foo", IntV(1)),
   Item("layer_sizes", ListV(<<IntV(16), IntV(32)>>)),
   Item("rf_estimators", IntV(7)),
   Item("hyperparam", BoolV(TRUE)),
   Item("uncertainty", BoolV(FALSE)),
   Item("model_type", None),
   Item("y", StrV(<<"a">>)),
   Item("feat_type", StrV(<<"b">>)),
   Item("dataset_bucket", StrV(<<"c">>))}

SectionLeaves ==
  {Item("bucket", StrV(<<"a">>)), Item("foo", IntV(2)),
   Item("featurizer", StrV(<<"a">>))}

\* the dicts of at most n items over a set of items
DictsOver(items, n) ==
  {d \in UNION {[1..m -> items] : m \in 0..n} :
     \A i, j \in 1..Len(d) : d[i].k = d[j].k => i = j}

\* nested mappings of one or two items, under a name that is no parameter
Sections ==
  {Item("section", DictV(d)) : d \in DictsOver(SectionLeaves, 2) \ {<<>>}}

\* flat and nested mappings
MappingInputs ==
  {DictInput(d) : d \in DictsOver(Leaves \cup Sections, MaxDictItems)}

\* the content of a config file, and the arguments that follow its path on
\* the command line
ConfigLeaves ==
  {Item("bucket", StrV(<<"a">>)), Item("rf_estimators", IntV(7)),
   Item("datastore", BoolV(TRUE)), Item("rerun", BoolV(TRUE)),
   Item("config_file", StrV(<<"q">>))}

ExtraPieces ==
  {<<Opt("bucket"), Val(<<"b">>)>>, <<Opt("rf_estimators"), Val(<<"9">>)>>,
   <<Opt("rerun")>>}

ExtraArgs ==
  {<<>>} \cup ExtraPieces \cup {x \o y : x \in ExtraPieces, y \in ExtraPieces}

ConfigInputs ==
  {[form |-> "list", d |-> d,
    a |-> <<Opt("config_file"), Val(<<"p">>)>> \o x] :
     d \in DictsOver(ConfigLeaves, MaxDictItems), x \in ExtraArgs}

\* mappings that set boolean flags
FlagLeaves == {Item(k, BoolV(v)) : k \in StoreTrueDests \cup StoreFalseDests,
                                  v \in BOOLEAN}

FlagInputs == {DictInput(d) : d \in DictsOver(FlagLeaves, 2) \ {<<>>}}

Inputs ==
  LayeredInputs \cup SplitInputs \cup SingleInputs \cup TokenInputs
    \cup ListFieldInputs \cup MappingInputs \cup ConfigInputs
    \cup FlagInputs

\* ------------------------------------------------------------------------
\* A normalisation run: wrapper -> parse_command_line -> postprocess_args
\* ------------------------------------------------------------------------
VARIABLES
  inp,        \* the argument of wrapper
  argv,       \* the argument list handed to parse_command_line
  parsed,     \* the namespace parser.parse_args returned
  ns,         \* the parameter object returned
  pc,         \* "wrapper", "parse_command_line", "postprocess_args",
              \* "done" (returned) or "raised"
  err,        \* the error raised, "" if none
  warnings    \* the warnings logged so far

normVars == <<inp, argv, parsed, ns, pc, err, warnings>>

VARIABLES
  wrapper_type,        \* the ModelWrapper subclass: "NN", "RF" or "xgboost"
  params,              \* the parameter object, but for max_epochs
  tpc,                 \* "construct", "create_transformers", "start",
                       \* "fold", "epoch", "scoring", "refit", "refit2",
                       \* "done", "failed" ("idle": no run)
  max_epochs,          \* params.max_epochs (the time escape lowers it)
  num_epochs0,         \* params.max_epochs when train was entered
  baseline_epoch,      \* params.baseline_epoch
  num_folds,           \* len(pipeline.data.train_valid_dsets)
  system_LC,           \* params.system == 'LC'
  over_time,           \* more than 64800 s have passed since start_time
  fold,                \* k
  epoch,               \* ei
  restore_hold,
  model_epochs,        \* fit increments the current model has received
  accumulated,         \* per epoch, the folds whose predictions were accumulated
  model_choice_scores,
  best_epoch,
  best_model_dir,      \* increments of the model copied there, NoEpoch if none
  baseline_model_dir,
  log                  \* the external calls made so far

trainVars ==
  <<wrapper_type, params, tpc, max_epochs, num_epochs0, baseline_epoch, num_folds, system_LC,
    over_time, fold, epoch, restore_hold, model_epochs, accumulated,
    model_choice_scores, best_epoch, best_model_dir, baseline_model_dir, log>>

VARIABLES
  call,       \* a method call on a trained wrapper: the method, its
              \* arguments and the attributes of the wrapper it reads
  cpc,        \* "call", "returned" or "raised" ("idle": no call)
  result      \* what the call returned or raised, and what it logged

callVars == <<call, cpc, result>>

NormInit ==
  /\ inp \in Inputs
  /\ argv = <<>>
  /\ parsed = <<>>
  /\ ns = <<>>
  /\ pc = "wrapper"
  /\ err = ""
  /\ warnings = <<>>

Raise(e) ==
  /\ pc' = "raised"
  /\ err' = e

Wrapper ==
  /\ pc = "wrapper"
  /\ LET r == wrapper(inp)
     IN  IF r.ok
         THEN /\ argv' = r.argv
              /\ warnings' = warnings \o r.w
              /\ pc' = "parse_command_line"
              /\ UNCHANGED err
         ELSE /\ Raise(r.err)
              /\ UNCHANGED <<argv, warnings>>
  /\ UNCHANGED <<inp, parsed, ns>>
  /\ UNCHANGED <<trainVars, callVars>>

\* parse_command_line up to its call of postprocess_args
ParseCommandLine ==
  /\ pc = "parse_command_line"
  /\ IF Duplicates(argv) # {}
     THEN Raise("duplicate") /\ UNCHANGED parsed
     ELSE LET r == parse_args(argv)
          IN  IF r.ok
              THEN parsed' = r.val /\ pc' = "postprocess_args" /\ UNCHANGED err
              ELSE Raise("argparse") /\ UNCHANGED parsed
  /\ UNCHANGED <<inp, argv, ns, warnings>>
  /\ UNCHANGED <<trainVars, callVars>>

PostprocessArgs ==
  /\ pc = "postprocess_args"
  /\ \E r \in postprocess_args(parsed) :
        IF r.ok
        THEN ns' = r.val /\ pc' = "done" /\ UNCHANGED err
        ELSE Raise(r.err) /\ UNCHANGED ns
  /\ UNCHANGED <<inp, argv, parsed, warnings>>
  /\ UNCHANGED <<trainVars, callVars>>

\* wrapper(P) on the parameter object P that wrapper has just returned
WrapperAgain ==
  /\ pc = "done"
  /\ inp.form # "namespace"
  /\ inp' = NamespaceInput(ns)
  /\ argv' = <<>>
  /\ parsed' = <<>>
  /\ ns' = <<>>
  /\ warnings' = <<>>
  /\ pc' = "wrapper"
  /\ UNCHANGED err
  /\ UNCHANGED <<trainVars, callVars>>

\* the normalisation side when only a training run is checked
NormIdle ==
  /\ inp = ListInput(<<>>)
  /\ argv = <<>>
  /\ parsed = <<>>
  /\ ns = <<>>
  /\ pc = "idle"
  /\ err = ""
  /\ warnings = <<>>

\* ------------------------------------------------------------------------
\* DCNNModelWrapper.train (model_wrapper.py)
\* ------------------------------------------------------------------------
NoEpoch == -1        \* best_epoch = None

\* the values a model-choice score takes (tenths: 1, 5, 3 for 0.1, 0.5, 0.3)
ScoreVals == {-1, 0, 1, 3, 5}

\* one call of an external service, as the run's log records it
Call(op, nb, restore, data) ==
  [op |-> op, nb |-> nb, restore |-> restore, data |-> data]

RecreateCall == Call("recreate", 0, FALSE, "")

\* a variant in which every fit continues from the weights at hand
FitCall_Restoring(data, nb, restore) == Call("fit", nb, TRUE, data)

FitCall(data, nb, restore) == Call("fit", nb, restore, data)
PredictCall(data) == Call("predict", 0, FALSE, data)
SaveCall == Call("save", 0, FALSE, "")
CopyCall(dir) == Call("copy", 0, FALSE, dir)
ScoreCall == Call("score", 0, FALSE, "")

\* the dataset names of fold k
TrainSet(k) == <<"train", k>>
ValidSet(k) == <<"valid", k>>

RECURSIVE ArgMaxLastFrom(_, _, _)
ArgMaxLastFrom(a, i, best) ==
  IF i > Len(a) THEN best - 1
  ELSE ArgMaxLastFrom(a, i + 1, IF a[i] >= a[best] THEN i ELSE best)

\* mutant of ArgMax: a later entry wins a tie
ArgMax_Last(a) == ArgMaxLastFrom(a, 2, 1)

\* mutant of ArgMax: no epoch is chosen
ArgMax_None(a) == NoEpoch

\* int(np.argmax(a)), a non-empty: a scan that keeps the first largest entry
\* and returns its 0-based index
RECURSIVE ArgMaxFrom(_, _, _)
ArgMaxFrom(a, i, best) ==
  IF i > Len(a) THEN best - 1
  ELSE ArgMaxFrom(a, i + 1, IF a[i] > a[best] THEN i ELSE best)

ArgMax(a) == ArgMaxFrom(a, 2, 1)

Min(a, b) == IF a <= b THEN a ELSE b
Max(a, b) == IF a >= b THEN a ELSE b

\* mutant of FitDataset: the refit always uses the first fold's training set
FitDataset_FirstFold(n) == TrainSet(0)

\* the dataset of the final refit
FitDataset(n) == IF n > 1 THEN <<"combined", 0>> ELSE TrainSet(0)

\* mutant of SecondFitEpochs: the second call fits max_epoch increments again
SecondFitEpochs_Full(min_epoch, max_epoch) == max_epoch

\* the increments of the second refit call
SecondFitEpochs(min_epoch, max_epoch) == max_epoch - min_epoch

TrainFields ==
  /\ over_time = FALSE
  /\ fold = 0
  /\ epoch = 0
  /\ restore_hold = FALSE
  /\ model_epochs = 0
  /\ accumulated = <<>>
  /\ model_choice_scores = <<>>
  /\ best_epoch = NoEpoch
  /\ best_model_dir = NoEpoch
  /\ baseline_model_dir = NoEpoch
  /\ log = <<>>

WrapperTypes == {"NN", "RF", "xgboost"}

S_graphconv == <<"g", "r", "a", "p", "h", "c", "o", "n", "v">>
S_ecfp == <<"e", "c", "f", "p">>
S_descriptors == <<"d", "e", "s", "c", "r", "i", "p", "t", "o", "r", "s">>
S_molvs == <<"m", "o", "l", "v", "s">>
S_transformers_pkl == <<"t", "r", "a", "n", "s", "f", "o", "r", "m", "e", "r", "s", ".", "p", "k", "l">>
S_transformers_uuid_pkl == <<"t", "r", "a", "n", "s", "f", "o", "r", "m", "e", "r", "s", "_", "u", "u", "i", "d", ".", "p", "k", "l">>
S_oid == <<"o", "i", "d">>

\* the parameters that wrapper construction and create_transformers read or
\* write, as normalisation returns them when only the featurizer is given
BaseParams ==
  [featurizer |-> StrV(S_ecfp),
   uncertainty |-> BoolV(TRUE),
   prediction_type |-> StrV(S_regression),
   transformers |-> BoolV(TRUE),
   datastore |-> BoolV(FALSE),
   bucket |-> StrV(<<"g", "s", "k", "_", "m", "l">>),
   layer_sizes |-> None,
   dropouts |-> None,
   weight_init_stddevs |-> None,
   bias_init_consts |-> None,
   transformer_key |-> None,
   transformer_oid |-> None,
   transformer_bucket |-> None]

Featurizers == {S_graphconv, S_ecfp, S_descriptors, S_molvs}

ParamInputs ==
  { [BaseParams EXCEPT !.featurizer = StrV(f), !.uncertainty = BoolV(u),
                       !.prediction_type = StrV(pt),
                       !.transformers = BoolV(tr), !.datastore = BoolV(ds),
                       !.layer_sizes = ls, !.dropouts = dr,
                       !.weight_init_stddevs = iv, !.bias_init_consts = iv] :
      f \in Featurizers, u \in BOOLEAN,
      pt \in {S_regression, S_classification}, tr \in BOOLEAN,
      ds \in BOOLEAN,
      ls \in {None, ListV(<<IntV(16), IntV(32)>>)},
      dr \in {None, ListV(<<FloatV(1, 1), FloatV(1, 1)>>)},
      iv \in {None, ListV(<<FloatV(5, 1), FloatV(5, 1)>>)} }

\* [v] * n
Repeat(v, n) == ListV([i \in 1..n |-> v])

\* a layered parameter as normalisation returns it: None when it was not
\* given, a list of the n items given otherwise
LayerValue(v, n) == IF n = 0 THEN None ELSE Repeat(v, n)

\* the parameter sets normalisation returns for the layered parameters given
\* with any lengths: those its final check of the lengths lets through
LayerParamInputs ==
  { p \in { [BaseParams EXCEPT !.featurizer = StrV(f),
                               !.layer_sizes = LayerValue(IntV(16), f_ls),
                               !.dropouts = LayerValue(FloatV(1, 1), f_dr),
                               !.weight_init_stddevs = LayerValue(FloatV(5, 1), f_ws),
                               !.bias_init_consts = LayerValue(FloatV(5, 1), f_bc)] :
               f \in Featurizers, f_ls \in 0..MaxLen, f_dr \in 0..MaxLen,
               f_ws \in 0..MaxLen, f_bc \in 0..MaxLen } :
      ~LayerCheckFails(p) }

\* a run is drawn with any parameter set and the shortest training
\* configuration, or with the base parameter set and any training
\* configuration
TrainInit ==
  /\ wrapper_type \in WrapperTypes
  /\ params \in ParamInputs \cup LayerParamInputs
  /\ tpc = "construct"
  /\ max_epochs \in 0..MaxEpochs
  /\ num_epochs0 = max_epochs
  /\ baseline_epoch \in 0..MaxBaseline
  /\ num_folds \in 1..MaxFolds
  /\ system_LC \in BOOLEAN
  /\ \/ params = BaseParams
     \/ max_epochs = 1 /\ baseline_epoch = 0 /\ num_folds = 1 /\ ~system_LC
  /\ TrainFields

TrainIdle ==
  /\ wrapper_type = "NN"
  /\ params = BaseParams
  /\ tpc = "idle"
  /\ max_epochs = 0
  /\ num_epochs0 = 0
  /\ baseline_epoch = 0
  /\ num_folds = 1
  /\ system_LC = FALSE
  /\ TrainFields

\* the clock only moves forward
ClockReads == IF over_time THEN {TRUE} ELSE {FALSE, TRUE}

\* a variant in which a call that raises is caught and the step repeated
Attempt_Retry(calls, upto) ==
  /\ log' = log \o SubSeq(calls, 1, upto)
  /\ upto < Len(calls) => tpc' = tpc

\* an external call sequence of which the first `upto` calls are made; the
\* last of them raises when upto < Len(calls)
Attempt(calls, upto) ==
  /\ log' = log \o SubSeq(calls, 1, upto)
  /\ upto < Len(calls) => tpc' = "failed"

\* ------------------------------------------------------------------------
\* create_model_wrapper and ModelWrapper.create_transformers
\* ------------------------------------------------------------------------
\* a variant that installs the default layer sizes over the caller's
DCNN_init_Overwrite(p) ==
  [p EXCEPT !.layer_sizes = ListV(<<IntV(1000), IntV(500)>>)]

\* lines 437-487: the defaults DCNNModelWrapper.__init__ writes into params
DCNN_init(p) ==
  IF p.featurizer = StrV(S_graphconv)
  THEN LET ls == IF p.layer_sizes = None
                 THEN ListV(<<IntV(64), IntV(64), IntV(128)>>)
                 ELSE p.layer_sizes
       IN [p EXCEPT !.layer_sizes = ls,
                    !.dropouts =
                       IF @ # None THEN @
                       ELSE IF p.uncertainty = BoolV(TRUE)
                            THEN Repeat(FloatV(25, 2), Len(ls.l))
                            ELSE Repeat(FloatV(0, 1), Len(ls.l))]
  ELSE LET ls == IF p.layer_sizes # None THEN p.layer_sizes
                 ELSE IF p.featurizer = StrV(S_descriptors)
                      THEN ListV(<<IntV(200), IntV(100)>>)
                      ELSE ListV(<<IntV(1000), IntV(500)>>)
       IN [p EXCEPT !.layer_sizes = ls,
                    !.dropouts =
                       IF @ # None THEN @ ELSE Repeat(FloatV(4, 1), Len(ls.l)),
                    !.weight_init_stddevs =
                       IF @ # None THEN @ ELSE Repeat(FloatV(2, 2), Len(ls.l)),
                    !.bias_init_consts =
                       IF @ # None THEN @ ELSE Repeat(FloatV(10, 1), Len(ls.l))]

\* lines 52-77: the wrapper class is chosen by params.model_type; the random
\* forest and xgboost constructors write nothing into params
Construct ==
  /\ tpc = "construct"
  /\ tpc' = "create_transformers"
  /\ params' = IF wrapper_type = "NN" THEN DCNN_init(params) ELSE params
  /\ UNCHANGED <<wrapper_type, max_epochs, num_epochs0, baseline_epoch,
                 num_folds, system_LC, over_time, fold, epoch, restore_hold,
                 model_epochs, accumulated, model_choice_scores, best_epoch,
                 best_model_dir, baseline_model_dir, log>>
  /\ UNCHANGED <<normVars, callVars>>

UploadCall == Call("upload", 0, FALSE, "")
DumpCall == Call("dump", 0, FALSE, "")

\* lines 183-217; features: trans.create_feature_transformers returned a
\* non-empty list
CreateTransformers ==
  /\ tpc = "create_transformers"
  /\ \E features \in BOOLEAN :
       LET response == /\ params.prediction_type = StrV(S_regression)
                       /\ params.transformers = BoolV(TRUE)
       IN IF ~(response \/ features)
          THEN tpc' = "start" /\ UNCHANGED <<params, log>>
          ELSE IF params.datastore = BoolV(TRUE)
               THEN \E uploaded \in BOOLEAN :
                      /\ tpc' = "start"
                      /\ log' = IF uploaded THEN Append(log, UploadCall)
                                ELSE log
                      /\ params' =
                           [params EXCEPT
                              !.transformer_key = StrV(S_transformers_uuid_pkl),
                              !.transformer_oid =
                                 IF uploaded THEN StrV(S_oid) ELSE @]
               ELSE \E upto \in 0..1 :
                      /\ Attempt(<<DumpCall>>, upto)
                      /\ upto = 1 => tpc' = "start"
                      /\ params' =
                           [params EXCEPT
                              !.transformer_key = StrV(S_transformers_pkl),
                              !.transformer_bucket =
                                 IF upto = 1 THEN params.bucket ELSE @]
  /\ UNCHANGED <<wrapper_type, max_epochs, num_epochs0, baseline_epoch,
                 num_folds, system_LC, over_time, fold, epoch, restore_hold,
                 model_epochs, accumulated, model_choice_scores, best_epoch,
                 best_model_dir, baseline_model_dir>>
  /\ UNCHANGED <<normVars, callVars>>

\* lines 645-667
TrainStart ==
  /\ wrapper_type = "NN"
  /\ tpc = "start"
  /\ tpc' = "fold"
  /\ accumulated' = [i \in 1..max_epochs |-> {}]
  /\ model_choice_scores' = [i \in 1..max_epochs |-> 0]
  /\ best_epoch' = NoEpoch
  /\ fold' = 0
  /\ UNCHANGED <<max_epochs, num_epochs0, baseline_epoch, num_folds,
                 system_LC, over_time, epoch, restore_hold, model_epochs,
                 best_model_dir, baseline_model_dir, log>>
  /\ UNCHANGED <<wrapper_type, params, normVars, callVars>>

\* lines 668-674: the head of the fold loop
FoldStart ==
  /\ wrapper_type = "NN"
  /\ tpc = "fold"
  /\ IF fold < num_folds
     THEN /\ restore_hold' = FALSE
          /\ epoch' = 0
          /\ IF fold > 0
             THEN \E upto \in 0..1 :
                    /\ Attempt(<<RecreateCall>>, upto)
                    /\ upto = 1 => tpc' = "epoch"
                    /\ model_epochs' = IF upto = 1 THEN 0 ELSE model_epochs
             ELSE tpc' = "epoch" /\ UNCHANGED <<log, model_epochs>>
     ELSE /\ tpc' = "scoring"
          /\ UNCHANGED <<restore_hold, epoch, log, model_epochs>>
  /\ UNCHANGED <<max_epochs, num_epochs0, baseline_epoch, num_folds,
                 system_LC, over_time, fold, accumulated,
                 model_choice_scores, best_epoch, best_model_dir,
                 baseline_model_dir>>
  /\ UNCHANGED <<wrapper_type, params, normVars, callVars>>

\* lines 675-693: one pass of the epoch loop, or its end
EpochStep ==
  /\ wrapper_type = "NN"
  /\ tpc = "epoch"
  /\ IF epoch >= max_epochs
     THEN /\ fold' = fold + 1
          /\ tpc' = "fold"
          /\ UNCHANGED <<max_epochs, over_time, epoch, restore_hold,
                         model_epochs, accumulated, log>>
     ELSE \E now_over \in ClockReads :
            /\ over_time' = now_over
            /\ IF system_LC /\ now_over
               THEN /\ max_epochs' = epoch
                    /\ fold' = fold + 1
                    /\ tpc' = "fold"
                    /\ UNCHANGED <<epoch, restore_hold, model_epochs,
                                   accumulated, log>>
               ELSE \E upto \in 0..4 :
                      /\ Attempt(<<FitCall(TrainSet(fold), 1, restore_hold),
                                   PredictCall(TrainSet(fold)),
                                   PredictCall(ValidSet(fold)),
                                   PredictCall(<<"test", 0>>)>>, upto)
                      /\ model_epochs' =
                           IF upto = 0 THEN model_epochs
                           ELSE IF restore_hold THEN model_epochs + 1 ELSE 1
                      /\ IF upto = 4
                         THEN /\ accumulated' =
                                   [accumulated EXCEPT
                                      ![epoch + 1] = @ \cup {fold}]
                              /\ restore_hold' = TRUE
                              /\ epoch' = epoch + 1
                              /\ tpc' = "epoch"
                         ELSE UNCHANGED <<accumulated, restore_hold, epoch>>
                      /\ UNCHANGED <<max_epochs, fold>>
  /\ UNCHANGED <<num_epochs0, baseline_epoch, num_folds, system_LC,
                 model_choice_scores, best_epoch, best_model_dir,
                 baseline_model_dir>>
  /\ UNCHANGED <<wrapper_type, params, normVars, callVars>>

\* lines 698-704: the scores of the epochs below max_epochs are computed by
\* the performance accumulators; the other entries keep np.zeros' 0
Scoring ==
  /\ wrapper_type = "NN"
  /\ tpc = "scoring"
  /\ \E s \in [1..max_epochs -> ScoreVals] :
       LET scores == [i \in 1..num_epochs0 |->
                        IF i <= max_epochs THEN s[i] ELSE 0]
       IN  /\ model_choice_scores' = scores
           /\ log' = Append(log, ScoreCall)
           /\ IF Len(scores) = 0
              THEN tpc' = "failed" /\ UNCHANGED best_epoch
              ELSE tpc' = "refit" /\ best_epoch' = ArgMax(scores)
  /\ UNCHANGED <<max_epochs, num_epochs0, baseline_epoch, num_folds,
                 system_LC, over_time, fold, epoch, restore_hold,
                 model_epochs, accumulated, best_model_dir,
                 baseline_model_dir>>
  /\ UNCHANGED <<wrapper_type, params, normVars, callVars>>

\* the directory variable a checkpoint of n increments is copied to
CopyTo(dir, n) ==
  /\ best_model_dir' = IF dir = "best" THEN n ELSE best_model_dir
  /\ baseline_model_dir' = IF dir = "baseline" THEN n ELSE baseline_model_dir

\* lines 708-727: a new model, min_epoch increments, the first checkpoint
RefitFirst ==
  /\ wrapper_type = "NN"
  /\ tpc = "refit"
  /\ LET min_epoch == Min(baseline_epoch, best_epoch)
         min_epoch_dir == IF best_epoch <= baseline_epoch THEN "best"
                          ELSE "baseline"
     IN  \E upto \in 0..4 :
           /\ Attempt(<<RecreateCall,
                        FitCall(FitDataset(num_folds), min_epoch, FALSE),
                        SaveCall, CopyCall(min_epoch_dir)>>, upto)
           /\ model_epochs' = IF upto >= 2 THEN min_epoch
                              ELSE IF upto = 1 THEN 0 ELSE model_epochs
           /\ IF upto = 4
              THEN tpc' = "refit2" /\ CopyTo(min_epoch_dir, min_epoch)
              ELSE UNCHANGED <<best_model_dir, baseline_model_dir>>
  /\ UNCHANGED <<max_epochs, num_epochs0, baseline_epoch, num_folds,
                 system_LC, over_time, fold, epoch, restore_hold,
                 accumulated, model_choice_scores, best_epoch>>
  /\ UNCHANGED <<wrapper_type, params, normVars, callVars>>

\* lines 728-731: the remaining increments, the second checkpoint
RefitSecond ==
  /\ wrapper_type = "NN"
  /\ tpc = "refit2"
  /\ LET min_epoch == Min(baseline_epoch, best_epoch)
         max_epoch == Max(baseline_epoch, best_epoch)
         max_epoch_dir == IF best_epoch <= baseline_epoch THEN "baseline"
                          ELSE "best"
         more == SecondFitEpochs(min_epoch, max_epoch)
         calls == (IF max_epoch > min_epoch
                   THEN <<FitCall(FitDataset(num_folds), more, TRUE), SaveCall>>
                   ELSE <<>>) \o <<CopyCall(max_epoch_dir)>>
     IN  \E upto \in 0..Len(calls) :
           /\ Attempt(calls, upto)
           /\ model_epochs' = IF max_epoch > min_epoch /\ upto >= 1
                              THEN model_epochs + more ELSE model_epochs
           /\ IF upto = Len(calls)
              THEN tpc' = "done" /\ CopyTo(max_epoch_dir, model_epochs')
              ELSE UNCHANGED <<best_model_dir, baseline_model_dir>>
  /\ UNCHANGED <<max_epochs, num_epochs0, baseline_epoch, num_folds,
                 system_LC, over_time, fold, epoch, restore_hold,
                 accumulated, model_choice_scores, best_epoch>>
  /\ UNCHANGED <<wrapper_type, params, normVars, callVars>>

\* ------------------------------------------------------------------------
\* DCRFModelWrapper.train and DCxgboostModelWrapper.train (the same steps)
\* ------------------------------------------------------------------------
\* the calls that end the run: for k-fold CV a fit on the combined training
\* and validation sets, then the save
ForestRefitCalls(n) ==
  (IF n > 1 THEN <<FitCall(<<"combined", 0>>, 0, FALSE)>> ELSE <<>>)
    \o <<SaveCall>>

\* RF lines 1046-1056, xgboost lines 1370-1380
ForestStart ==
  /\ wrapper_type # "NN"
  /\ tpc = "start"
  /\ tpc' = "fold"
  /\ best_epoch' = NoEpoch
  /\ fold' = 0
  /\ UNCHANGED <<max_epochs, num_epochs0, baseline_epoch, num_folds,
                 system_LC, over_time, epoch, restore_hold, model_epochs,
                 accumulated, model_choice_scores, best_model_dir,
                 baseline_model_dir, log>>
  /\ UNCHANGED <<wrapper_type, params, normVars, callVars>>

\* RF lines 1057-1071, xgboost lines 1381-1395: one pass of the fold loop
ForestFold ==
  /\ wrapper_type # "NN"
  /\ tpc = "fold"
  /\ IF fold < num_folds
     THEN \E upto \in 0..4 :
            /\ Attempt(<<FitCall(TrainSet(fold), 0, FALSE),
                         PredictCall(TrainSet(fold)),
                         PredictCall(ValidSet(fold)),
                         PredictCall(<<"test", 0>>)>>, upto)
            /\ IF upto = 4
               THEN fold' = fold + 1 /\ tpc' = "fold"
               ELSE UNCHANGED fold
     ELSE /\ tpc' = "scoring"
          /\ UNCHANGED <<fold, log>>
  /\ UNCHANGED <<max_epochs, num_epochs0, baseline_epoch, num_folds,
                 system_LC, over_time, epoch, restore_hold, model_epochs,
                 accumulated, model_choice_scores, best_epoch,
                 best_model_dir, baseline_model_dir>>
  /\ UNCHANGED <<wrapper_type, params, normVars, callVars>>

\* RF lines 1074-1080, xgboost lines 1397-1403: the one model-choice score
ForestScoring ==
  /\ wrapper_type # "NN"
  /\ tpc = "scoring"
  /\ \E s \in ScoreVals : model_choice_scores' = <<s>>
  /\ log' = Append(log, ScoreCall)
  /\ tpc' = "refit"
  /\ UNCHANGED <<max_epochs, num_epochs0, baseline_epoch, num_folds,
                 system_LC, over_time, fold, epoch, restore_hold,
                 model_epochs, accumulated, best_epoch, best_model_dir,
                 baseline_model_dir>>
  /\ UNCHANGED <<wrapper_type, params, normVars, callVars>>

\* RF lines 1082-1088, xgboost lines 1405-1411
ForestRefit ==
  /\ wrapper_type # "NN"
  /\ tpc = "refit"
  /\ LET calls == ForestRefitCalls(num_folds)
     IN  \E upto \in 0..Len(calls) :
           /\ Attempt(calls, upto)
           /\ IF upto = Len(calls)
              THEN tpc' = "done" /\ best_epoch' = 0
              ELSE UNCHANGED best_epoch
  /\ UNCHANGED <<max_epochs, num_epochs0, baseline_epoch, num_folds,
                 system_LC, over_time, fold, epoch, restore_hold,
                 model_epochs, accumulated, model_choice_scores,
                 best_model_dir, baseline_model_dir>>
  /\ UNCHANGED <<wrapper_type, params, normVars, callVars>>

\* ------------------------------------------------------------------------
\* Method calls on a trained wrapper: generate_predictions of the three
\* variants, get_pred_results and get_perf_data of the neural-network one
\* ------------------------------------------------------------------------
PredictionTypes == {"regression", "classification"}

\* "other" stands for any string that is none of the named ones, "None"
\* for the default of epoch_label
Subsets == {"train", "valid", "test", "full", "other"}

EpochLabels == {"best", "baseline", "None", "other"}

NoCall ==
  [op |-> "", model_type |-> "NN", uncertainty |-> FALSE,
   prediction_type |-> "regression", transformers |-> FALSE,
   has_transformers |-> FALSE, nclasses |-> 1, subset |-> "",
   epoch_label |-> "", num_epochs |-> 1, max_epochs |-> 1,
   baseline_epoch |-> 0, best_epoch |-> 0]

NoResult ==
  [raised |-> "", pred |-> "None", std |-> "None", warnings |-> <<>>,
   calls |-> <<>>, kind |-> "", subset |-> "", epoch |-> NoEpoch]

\* has_transformers: self.transformers is not None; nclasses: the last
\* dimension of the predictions the model returns
PredictionCalls ==
  { [NoCall EXCEPT !.op = "generate_predictions", !.model_type = m,
                   !.uncertainty = u, !.prediction_type = pt,
                   !.transformers = tr, !.has_transformers = ht,
                   !.nclasses = nc] :
      m \in WrapperTypes, u \in BOOLEAN, pt \in PredictionTypes,
      tr \in BOOLEAN, ht \in BOOLEAN, nc \in 1..MaxClasses }

\* num_epochs: the length of train_perf_data, valid_perf_data and
\* test_perf_data; the time escape may have lowered max_epochs below it
ResultCalls ==
  { [NoCall EXCEPT !.op = o, !.subset = s, !.epoch_label = l,
                   !.num_epochs = n, !.max_epochs = me,
                   !.baseline_epoch = be, !.best_epoch = b] :
      o \in {"get_pred_results", "get_perf_data"}, s \in Subsets,
      l \in EpochLabels, n \in 1..MaxEpochs, me \in 0..MaxEpochs,
      be \in 0..MaxBaseline, b \in 0..(MaxEpochs - 1) }

Calls ==
  PredictionCalls \cup
  { c \in ResultCalls : c.max_epochs <= c.num_epochs /\ c.best_epoch < c.num_epochs }

Warn(text) == [ev |-> "warn", text |-> text]
Ext(text) == [ev |-> "ext", text |-> text]

\* the warnings logged and the external-library calls made by a method body,
\* of whose external calls the first `ext` succeed and the next one raises
RECURSIVE RunFrom(_, _, _, _)
RunFrom(events, i, ext, acc) ==
  IF i > Len(events) THEN acc
  ELSE IF events[i].ev = "warn"
       THEN RunFrom(events, i + 1, ext,
                    [acc EXCEPT !.warnings = Append(@, events[i].text)])
       ELSE IF ext = 0
            THEN [acc EXCEPT !.raised = "external"]
            ELSE RunFrom(events, i + 1, ext - 1,
                         [acc EXCEPT !.calls = Append(@, events[i].text)])

Run(events, ext) == RunFrom(events, 1, ext, NoResult)

\* lines 887-933
DCNN_generate_predictions(c) ==
  LET regr == c.uncertainty /\ c.prediction_type = "regression"
      undo == c.transformers /\ c.has_transformers
  IN [events |->
        (IF c.uncertainty /\ c.prediction_type = "classification"
         THEN <<Warn("regression only")>> ELSE <<>>)
        \o (IF regr
            THEN <<Ext("predict_uncertainty")>>
                 \o (IF undo THEN <<Ext("undo_transforms")>> ELSE <<>>)
            ELSE IF undo THEN <<Ext("predict(transformers)")>>
                 ELSE <<Ext("predict([])")>>),
      pred |-> "pred",
      std |-> IF regr THEN "std" ELSE "None"]

\* lines 1195-1226
DCRF_generate_predictions(c) ==
  LET regr == c.prediction_type = "regression" IN
  [events |->
     <<Ext("predict(transformers)")>>
     \o (IF ~c.uncertainty THEN <<>>
         ELSE IF regr
              THEN <<Ext("joblib.load"), Ext("tree.predict")>>
                   \o (IF c.transformers /\ c.has_transformers
                       THEN <<Ext("undo_transforms")>> ELSE <<>>)
              ELSE IF c.nclasses = 2 THEN <<>>
                   ELSE <<Warn("binary classifiers only")>>),
   pred |-> "pred",
   std |-> IF c.uncertainty /\ (regr \/ c.nclasses = 2) THEN "std" ELSE "None"]

\* a variant that reports an uncertainty it cannot compute
DCxgboost_generate_predictions_Std(c) ==
  [events |-> <<Warn("evaluating"), Ext("predict(transformers)")>>,
   pred |-> "pred",
   std |-> IF c.uncertainty THEN "std" ELSE "None"]

\* lines 1562-1572
DCxgboost_generate_predictions(c) ==
  [events |-> <<Warn("evaluating"), Ext("predict(transformers)")>>
              \o (IF c.uncertainty THEN <<Warn("not supported")>> ELSE <<>>),
   pred |-> "pred",
   std |-> "None"]

PredictionBody(c) ==
  CASE c.model_type = "NN" -> DCNN_generate_predictions(c)
    [] c.model_type = "RF" -> DCRF_generate_predictions(c)
    [] c.model_type = "xgboost" -> DCxgboost_generate_predictions(c)

generate_predictions(c, ext) ==
  LET body == PredictionBody(c)
      r == Run(body.events, ext)
  IN IF r.raised # "" THEN r
     ELSE [r EXCEPT !.pred = body.pred, !.std = body.std]

\* perf_data[i] of a Python list of length n
PyIndex(n, i) == IF i >= -n /\ i < n THEN (i + n) % n ELSE NoEpoch

\* lines 806-817 and 849-860
LabelledEpoch(c) ==
  IF c.epoch_label = "best" THEN c.best_epoch
  ELSE IF c.max_epochs < c.baseline_epoch THEN c.max_epochs - 1
       ELSE c.baseline_epoch - 1

\* lines 804-825 and 847-870; the "full" subset is evaluated by
\* get_full_dataset_pred_results / get_full_dataset_perf_data, which calls
\* generate_predictions
GetResults(c, ext) ==
  LET r == [NoResult EXCEPT !.kind = c.op, !.subset = c.subset] IN
  IF c.subset = "full"
  THEN IF ext = 0 THEN [r EXCEPT !.raised = "external"]
       ELSE [r EXCEPT !.calls = <<"generate_predictions">>]
  ELSE IF c.epoch_label \notin {"best", "baseline"}
       THEN [r EXCEPT !.raised = "ValueError"]
       ELSE IF c.subset \in {"train", "valid", "test"}
            THEN IF PyIndex(c.num_epochs, LabelledEpoch(c)) = NoEpoch
                 THEN [r EXCEPT !.raised = "IndexError"]
                 ELSE [r EXCEPT !.epoch = PyIndex(c.num_epochs, LabelledEpoch(c))]
            ELSE [r EXCEPT !.raised = "ValueError"]

CallIdle ==
  /\ call = NoCall
  /\ cpc = "idle"
  /\ result = NoResult

CallInit ==
  /\ call \in Calls
  /\ cpc = "call"
  /\ result = NoResult

Return(r) ==
  /\ result' = r
  /\ cpc' = IF r.raised = "" THEN "returned" ELSE "raised"
  /\ UNCHANGED <<call, normVars, trainVars>>

GeneratePredictions ==
  /\ cpc = "call"
  /\ call.op = "generate_predictions"
  /\ \E ext \in 0..Len(PredictionBody(call).events) :
       Return(generate_predictions(call, ext))

\* lines 787-825
GetPredResults ==
  /\ cpc = "call"
  /\ call.op = "get_pred_results"
  /\ \E ext \in 0..1 : Return(GetResults(call, ext))

\* lines 828-870
GetPerfData ==
  /\ cpc = "call"
  /\ call.op = "get_perf_data"
  /\ \E ext \in 0..1 : Return(GetResults(call, ext))

vars == <<normVars, trainVars, callVars>>

\* a normalisation run
Init == NormInit /\ TrainIdle /\ CallIdle

Next == Wrapper \/ ParseCommandLine \/ PostprocessArgs \/ WrapperAgain

Spec == Init /\ [][Next]_vars

\* a training run of the neural-network wrapper
InitTrain == NormIdle /\ TrainInit /\ CallIdle

NextTrain ==
  \/ Construct \/ CreateTransformers
  \/ TrainStart \/ FoldStart \/ EpochStep \/ Scoring \/ RefitFirst
  \/ RefitSecond
  \/ ForestStart \/ ForestFold \/ ForestScoring \/ ForestRefit

SpecTrain == InitTrain /\ [][NextTrain]_vars

\* a method call on a trained wrapper
InitCalls == NormIdle /\ TrainIdle /\ CallInit

NextCalls == GeneratePredictions \/ GetPredResults \/ GetPerfData

SpecCalls == InitCalls /\ [][NextCalls]_vars

\* ------------------------------------------------------------------------
\* Properties of a normalisation run (Spec)
\* ------------------------------------------------------------------------
\* the errors raised before postprocess_args is entered
EarlyErrs == {"IndexError", "IOError", "eval", "duplicate", "argparse"}

\* postprocess_args was entered and has returned or raised
PostprocessEnded == pc = "done" \/ (pc = "raised" /\ err \notin EarlyErrs)

\* the run is outside hyperparameter mode (parsed is the parser's namespace)
NormalMode == pc \in {"done", "raised"} /\ DOMAIN parsed # {}
                 /\ parsed.hyperparam = BoolV(FALSE)

\* parameter k was supplied with a value that is not a null string
IsSupplied(k) == IsStr(parsed[k]) /\ parsed[k].s \notin null_options

\* the number of comma-separated items parameter k was supplied with
SuppliedCount(k) == Len(Split(parsed[k].s, ","))

\* two layered parameters are supplied with different numbers of items
MismatchSupplied ==
  \E a, b \in LayeredParams :
     IsSupplied(a) /\ IsSupplied(b) /\ SuppliedCount(a) # SuppliedCount(b)

(* C1: outside hyperparameter mode, no run in which two of layer_sizes,
   dropouts, weight_init_stddevs, bias_init_consts are supplied with
   different list lengths returns a parameter object. *)
C1_MismatchedLayersRaise == (NormalMode /\ MismatchSupplied) => pc = "raised"

\* a decimal of at most three places, in thousandths
Thousandths(x) == x.m * Pow10(3 - x.e)

(* C2: with split_strategy train_valid_test, once postprocess_args has run,
   the split error is raised exactly when split_valid_frac + split_test_frac
   is at least 1.0. *)
C2_SplitFractions ==
  (PostprocessEnded /\ parsed.split_strategy = StrV(S_train_valid_test)) =>
     ((err = "split") <=>
        (Thousandths(parsed.split_valid_frac)
           + Thousandths(parsed.split_test_frac) >= 1000))

\* the fractions 0.5 and 0.5 sum to exactly 1.0 and are refused
C2_Witness ==
  /\ pc = "raised" /\ err = "split"
  /\ parsed.split_strategy = StrV(S_train_valid_test)
  /\ parsed.split_valid_frac = FloatV(5, 1)
  /\ parsed.split_test_frac = FloatV(5, 1)

\* some option token occurs twice in the argument list
RepeatedOption(a) ==
  \E i, j \in 1..Len(a) : i < j /\ a[i].opt /\ a[j].opt /\ a[i].k = a[j].k

(* C3: when an option token occurs more than once in the argument list,
   parse_command_line raises the duplicate error, nothing has been parsed and
   no parameter object exists. *)
C3_DuplicateKeyRaises ==
  (pc \in {"postprocess_args", "done", "raised"} /\ RepeatedOption(argv)) =>
     /\ pc = "raised" /\ err = "duplicate"
     /\ DOMAIN parsed = {}
     /\ DOMAIN ns = {}

C3_Witness ==
  /\ pc = "raised" /\ err = "duplicate"
  /\ Len(argv) = 4
  /\ argv[1] = Opt("bucket") /\ argv[3] = Opt("bucket")

\* the keys of a mapping that hold a value that is no mapping, at any depth
RECURSIVE LeafKeys(_)
LeafKeys(d) ==
  UNION {IF d[i].v.t = "dict" THEN LeafKeys(d[i].v.d) ELSE {d[i].k} :
           i \in 1..Len(d)}

\* the mapping without the leaves whose key is in ks
RECURSIVE WithoutKeys(_, _)
WithoutKeys(d, ks) ==
  IF d = <<>> THEN <<>>
  ELSE LET h == Head(d)
           rest == WithoutKeys(Tail(d), ks)
       IN  IF h.v.t = "dict"
           THEN <<Item(h.k, DictV(WithoutKeys(h.v.d, ks)))>> \o rest
           ELSE IF h.k \in ks THEN rest ELSE <<h>> \o rest

\* the keys of a mapping that are neither a parameter nor an alias of one
UnknownKeys(d) ==
  LeafKeys(d) \ (Dests \cup {AliasOrder[i] : i \in 1..Len(AliasOrder)})

\* the options of an argument list that are no parameter
UnknownOptions(a) ==
  {a[i].k : i \in {j \in 1..Len(a) : a[j].opt /\ a[j].k \notin Dests}}

\* the keys an "extra keys" warning was logged for
WarnedKeys ==
  UNION {IF warnings[i].kind = "extra"
         THEN {warnings[i].keys[j] : j \in 1..Len(warnings[i].keys)}
         ELSE {} : i \in 1..Len(warnings)}

(* C4: a flat or nested mapping with unrecognized keys (holding values that
   are no mappings) is converted without error: a warning names every such
   key, no such key reaches the argument list, and the argument list is the
   one of the mapping without these keys.  An argument list with an option
   that is no parameter never yields a parameter object, and no warning is
   logged for it. *)
C4_UnknownKeyByForm ==
  /\ (inp.form = "dict" /\ pc # "wrapper") =>
        /\ err \notin {"IndexError", "IOError", "eval"}
        /\ UnknownKeys(inp.d) \subseteq WarnedKeys
        /\ UnknownOptions(argv) = {}
        /\ argv = parse_namespace(WithoutKeys(inp.d, UnknownKeys(inp.d))).argv
  /\ (inp.form = "list" /\ UnknownOptions(inp.a) # {}) =>
        (pc # "done" /\ warnings = <<>>)

\* a nested mapping with an unrecognized key was normalised
C4_Witness ==
  /\ pc = "done" /\ inp.form = "dict"
  /\ \E i \in 1..Len(inp.d) : inp.d[i].v.t = "dict"
  /\ "foo" \in UnknownKeys(inp.d) /\ "foo" \in WarnedKeys
  /\ Len(argv) > 0

(* C4 as first stated: in each of the three input forms an unrecognized key
   is dropped with a warning and the run still yields a parameter object
   as it would without the key. *)
C4_UnknownKeyEveryForm ==
  (pc \in {"done", "raised"}) =>
     LET unknown == IF inp.form = "dict" THEN UnknownKeys(inp.d)
                    ELSE UnknownOptions(inp.a)
     IN  unknown # {} => (unknown \subseteq WarnedKeys /\ err # "argparse")

\* the input is a mapping with one list-valued field
ListField == inp.form = "dict" /\ Len(inp.d) = 1 /\ IsList(inp.d[1].v)

(* C5: a list-valued field of a flat mapping that is serialized by
   dict_to_list and normalised comes back as the same ordered list when it
   has two or more items, or one item and the parameter is kept as a list
   (layer_sizes, dropouts, weight_init_stddevs, bias_init_consts,
   response_cols); a one-item list of any other numeric parameter comes back
   as the bare item; an empty list comes back only for response_cols, as
   the list of one empty string. *)
C5_ListRoundTrip ==
  (pc = "done" /\ ListField) =>
     LET k == inp.d[1].k
         v == inp.d[1].v
         n == Len(v.l)
     IN  IF n >= 2 \/ (n = 1 /\ k \in keep_as_list \cup {"response_cols"})
         THEN PyEq(ns[k], v)
         ELSE IF n = 1 THEN PyEq(ns[k], v.l[1])
         ELSE k = "response_cols" /\ ns[k] = ListV(<<StrV(<<>>)>>)

\* a three-item list came back, and so did a one-item list as a scalar
C5_Witness ==
  /\ pc = "done" /\ ListField
  /\ inp.d[1].k = "rf_estimators"
  /\ Len(inp.d[1].v.l) = 1
  /\ ns.rf_estimators = IntV(16)

(* C5 as first stated: the field comes back as the same ordered list for
   non-empty lists of every length, length 1 included. *)
C5_ListRoundTripEveryLength ==
  (pc = "done" /\ ListField /\ Len(inp.d[1].v.l) >= 1) =>
     PyEq(ns[inp.d[1].k], inp.d[1].v)

\* the argument list of "--model_type NN,RF --hyperparam"
ModelTypeSearch ==
  ListInput(<<Opt("model_type"), Val(<<"N", "N", ",", "R", "F">>),
              Opt("hyperparam")>>)

\* the parameter objects of "--hyperparam" alone
HyperparamAlone ==
  {r.val : r \in postprocess_args(parse_args(<<Opt("hyperparam")>>).val)}

(* C6: normalising the argument list of "--model_type NN,RF --hyperparam"
   returns one parameter object whose model_type is the list [NN, RF] and
   whose other parameters are those of "--hyperparam" alone. *)
C6_HyperModelTypeList ==
  (pc = "done" /\ inp = ModelTypeSearch) =>
     /\ ns.model_type = ListV(<<StrV(<<"N", "N">>), StrV(<<"R", "F">>)>>)
     /\ \E base \in HyperparamAlone :
          \A k \in Dests \ {"model_type"} : ns[k] = base[k]

C6_Witness ==
  /\ pc = "done" /\ inp = ModelTypeSearch
  /\ ns.hyperparam = BoolV(TRUE)
  /\ IsList(ns.model_type) /\ Len(ns.model_type.l) = 2

(* C6 as first stated: each parameter set produced has a single model type,
   NN or RF. *)
C6_OneModelTypeEach ==
  (pc = "done" /\ inp = ModelTypeSearch) =>
     ns.model_type \in {StrV(<<"N", "N">>), StrV(<<"R", "F">>)}

\* a blank or a comma at position i of s
IsDelimiter(s, i) == s[i] \in {",", " ", "@"}

\* a delimiter with something other than blanks on both sides of it
InteriorDelimiter(s) ==
  \E i \in 1..Len(s) :
     /\ s[i] = "," \/ (\E j \in 1..(i - 1) : s[j] \notin {" ", "@"})
     /\ s[i] = "," \/ (\E j \in (i + 1)..Len(s) : s[j] \notin {" ", "@"})
     /\ IsDelimiter(s, i)

(* C9: outside hyperparameter mode, normalisation raises whenever a numeric
   never-a-list parameter is given a value with a comma or with a blank
   between two of its characters, and whenever a string never-a-list
   parameter is given a value with a comma or any blank ("@" stands for a
   blank); a numeric value with blanks only at its ends is accepted. *)
C9_NeverAListRaises ==
  (NormalMode /\ PostprocessEnded) =>
     /\ \A k \in not_a_list_outside_of_hyperparams :
          (IsSupplied(k) /\ InteriorDelimiter(parsed[k].s)) => pc = "raised"
     /\ \A k \in not_a_str_list_outside_of_hyperparams :
          (IsSupplied(k) /\ \E i \in 1..Len(parsed[k].s) :
                               IsDelimiter(parsed[k].s, i)) => pc = "raised"

C9_Witness ==
  /\ pc = "raised" /\ err = "not_a_list"
  /\ NormalMode
  /\ \E k \in not_a_list_outside_of_hyperparams :
       IsSupplied(k) /\ \E i \in 1..Len(parsed[k].s) : parsed[k].s[i] = ","

(* C9 as first stated: any list delimiter in the value of a never-a-list
   parameter makes normalisation raise. *)
C9_AnyDelimiterRaises ==
  (NormalMode /\ PostprocessEnded) =>
     \A k \in not_a_list_outside_of_hyperparams
                \cup not_a_str_list_outside_of_hyperparams :
        (IsSupplied(k) /\ \E i \in 1..Len(parsed[k].s) :
                             IsDelimiter(parsed[k].s, i)) => pc = "raised"

(* C10: in every parameter object returned, any two of layer_sizes,
   dropouts, weight_init_stddevs, bias_init_consts that are not None have
   the same list length. *)
C10_LayeredSameLength ==
  pc = "done" =>
     \A a, b \in LayeredParams :
        (IsList(ns[a]) /\ IsList(ns[b])) => Len(ns[a].l) = Len(ns[b].l)

\* ------------------------------------------------------------------------
\* Properties of a training run (SpecTrain)
\* ------------------------------------------------------------------------
\* every fold ran every epoch: the time escape did not cut the run short
AllEpochsRan == max_epochs = num_epochs0

(* C7: when all folds and epochs have completed, best_epoch is the 0-based
   index of the first epoch whose model-choice score is the largest. *)
C7_BestEpochArgmax ==
  (wrapper_type = "NN" /\ tpc \in {"refit", "refit2", "done"}
     /\ AllEpochsRan) =>
     /\ best_epoch \in 0..(Len(model_choice_scores) - 1)
     /\ \A j \in 1..Len(model_choice_scores) :
          model_choice_scores[j] <= model_choice_scores[best_epoch + 1]
     /\ \A j \in 1..best_epoch :
          model_choice_scores[j] < model_choice_scores[best_epoch + 1]

\* three folds, scores 0.1, 0.5, 0.3 (in tenths): best_epoch is 1
C7_Witness ==
  /\ wrapper_type = "NN" /\ tpc = "refit" /\ AllEpochsRan /\ num_folds = 3
  /\ model_choice_scores = <<1, 5, 3>>
  /\ best_epoch = 1

\* the calls made after the scores were computed
RECURSIVE AfterScore(_)
AfterScore(l) ==
  IF l = <<>> THEN <<>>
  ELSE IF l[Len(l)] = ScoreCall THEN <<>>
  ELSE Append(AfterScore(SubSeq(l, 1, Len(l) - 1)), l[Len(l)])

RECURSIVE SumNb(_)
SumNb(l) == IF l = <<>> THEN 0 ELSE l[1].nb + SumNb(Tail(l))

OfKind(l, op) == SelectSeq(l, LAMBDA c : c.op = op)

(* C8: a completed refit starts with a new model, fits min(best_epoch,
   baseline_epoch) increments without restoring and copies a checkpoint,
   then fits only the max - min remaining increments, restoring, and copies
   the second checkpoint: two checkpoints, and max(best_epoch,
   baseline_epoch) fit increments in total. *)
C8_RefitIncrements ==
  (wrapper_type = "NN" /\ tpc = "done") =>
     LET refit == AfterScore(log)
         fits == OfKind(refit, "fit")
         lo == IF best_epoch <= baseline_epoch THEN best_epoch
               ELSE baseline_epoch
         hi == IF best_epoch <= baseline_epoch THEN baseline_epoch
               ELSE best_epoch
     IN  /\ refit[1] = RecreateCall
         /\ Len(OfKind(refit, "recreate")) = 1
         /\ refit[2].op = "fit" /\ refit[2].nb = lo /\ ~refit[2].restore
         /\ refit[3].op = "save" /\ refit[4].op = "copy"
         /\ Len(OfKind(refit, "copy")) = 2
         /\ refit[Len(refit)].op = "copy"
         /\ Len(fits) = IF hi > lo THEN 2 ELSE 1
         /\ hi > lo => (fits[2].nb = hi - lo /\ fits[2].restore)
         /\ SumNb(fits) = hi
         /\ model_epochs = hi
         /\ {best_model_dir, baseline_model_dir} = {lo, hi}

\* baseline_epoch 5 and best_epoch 2: 2 increments, then 3 more
C8_Witness ==
  /\ wrapper_type = "NN" /\ tpc = "done"
  /\ baseline_epoch = 5 /\ best_epoch = 2
  /\ best_model_dir = 2 /\ baseline_model_dir = 5
  /\ SumNb(OfKind(AfterScore(log), "fit")) = 5

\* ------------------------------------------------------------------------
\* Properties of flattening and renaming (Spec)
\* ------------------------------------------------------------------------
\* the items of a mapping that hold no mapping, in traversal order
RECURSIVE LeafItems(_)
LeafItems(d) ==
  IF d = <<>> THEN <<>>
  ELSE (IF Head(d).v.t = "dict" THEN LeafItems(Head(d).v.d) ELSE <<Head(d)>>)
         \o LeafItems(Tail(d))

\* the places of key k in a sequence of items
PlacesOf(l, k) == {i \in 1..Len(l) : l[i].k = k}

LastPlace(l, k) == CHOOSE i \in PlacesOf(l, k) : \A j \in PlacesOf(l, k) : j <= i

\* the keys a "appears several times" warning was logged for
DupWarned ==
  {warnings[i].key : i \in {j \in 1..Len(warnings) : warnings[j].kind = "dup"}}

\* the keys of which some occurrence follows an occurrence with another value
ChangedKeys(l) ==
  {l[i].k : i \in {j \in 1..Len(l) :
                     \E h \in 1..(j - 1) :
                        /\ l[h].k = l[j].k
                        /\ \A m \in (h + 1)..(j - 1) : l[m].k # l[j].k
                        /\ ~PyEq(l[h].v, l[j].v)}}

\* a mapping was handed to wrapper and has been flattened
Flattened == inp.form = "dict" /\ pc # "wrapper"

(* C11: flattening a nested mapping gives every key the value of its last
   occurrence in traversal order (a recognized key that no alias replaces
   reaches the argument list with that value), and a warning is logged exactly for the keys of which
   some occurrence follows one with a different value. *)
C11_FlattenLastWins ==
  Flattened =>
     LET l == LeafItems(inp.d)
         flat == flatten_dict(inp.d).d
     IN  /\ {flat[i].k : i \in 1..Len(flat)} = {l[i].k : i \in 1..Len(l)}
         /\ \A i \in 1..Len(flat) :
               flat[i].v = l[LastPlace(l, flat[i].k)].v
         /\ PlacesOf(l, "dataset_bucket") = {} =>
               \A i \in 1..(Len(argv) - 1) :
                  argv[i] = Opt("bucket") =>
                     argv[i + 1] = Val(l[LastPlace(l, "bucket")].v.s)
         /\ DupWarned = ChangedKeys(l)

\* bucket "b", then a section with bucket "a": "a" wins and a warning is logged
C11_Witness ==
  /\ pc = "done"
  /\ inp = DictInput(<<Item("bucket", StrV(<<"b">>)),
                       Item("section",
                            DictV(<<Item("bucket", StrV(<<"a">>))>>))>>)
  /\ argv = <<Opt("bucket"), Val(<<"a">>)>>
  /\ DupWarned = {"bucket"}

(* C11 as first stated: a warning is logged for every key that occurs more
   than once in traversal order. *)
C11_EveryDuplicateWarned ==
  Flattened =>
     LET l == LeafItems(inp.d)
     IN  \A i, j \in 1..Len(l) :
            (i < j /\ l[i].k = l[j].k) => l[i].k \in DupWarned

Aliases == {AliasOrder[i] : i \in 1..Len(AliasOrder)}

(* C12: once a mapping has been converted, no alias key (dataset_bucket,
   feat_type, y, optimizer) is left in the argument list, and for every
   alias supplied the canonical option (bucket, featurizer, response_cols,
   optimizer_type) carries the value supplied under the alias, also when the
   canonical key was supplied too. *)
C12_AliasesRenamed ==
  Flattened =>
     LET l == LeafItems(inp.d)
     IN  /\ \A i \in 1..Len(argv) : argv[i].opt => argv[i].k \notin Aliases
         /\ \A a \in Aliases :
               PlacesOf(l, a) # {} =>
                  /\ \E i \in 1..(Len(argv) - 1) :
                        /\ argv[i] = Opt(AliasTarget(a))
                        /\ argv[i + 1] = Val(l[LastPlace(l, a)].v.s)
                  /\ pc = "done" =>
                        ns[AliasTarget(a)] \in
                           {l[LastPlace(l, a)].v, ListV(<<l[LastPlace(l, a)].v>>)}

\* bucket "a" and dataset_bucket "c" were both supplied: bucket is "c"
C12_Witness ==
  /\ pc = "done"
  /\ inp = DictInput(<<Item("bucket", StrV(<<"a">>)),
                       Item("dataset_bucket", StrV(<<"c">>))>>)
  /\ argv = <<Opt("bucket"), Val(<<"c">>)>>
  /\ ns.bucket = StrV(<<"c">>)

\* ------------------------------------------------------------------------
\* Properties of list decoding (Spec)
\* ------------------------------------------------------------------------
\* the run is in hyperparameter mode
HyperMode == pc \in {"done", "raised"} /\ DOMAIN parsed # {}
                /\ parsed.hyperparam = BoolV(TRUE)

\* the value supplied for k as postprocess_args reads it: "@" is a blank
SuppliedText(k) == Replace(parsed[k].s, "@", " ")

\* the space-separated groups of the value supplied for k
Groups(k) == Split(SuppliedText(k), " ")

\* the number a piece of text stands for under the type table
NumberOf(k, s) ==
  IF k \in convert_to_int_list THEN ParseInt(s).val ELSE ParseFloat(s).val

\* the list a comma-separated group stands for
GroupList(k, g) ==
  LET pieces == Split(g, ",")
  IN  ListV([j \in 1..Len(pieces) |-> NumberOf(k, pieces[j])])

(* C13: in hyperparameter mode a numeric list parameter given as N >= 2
   space-separated groups of comma-separated values comes back as a list of
   exactly N lists, one per group in input order; a single group (N = 1)
   comes back as its own flat list, or as the bare value when it has one
   value and the parameter is not in keep_as_list. *)
C13_HyperGroups ==
  (pc = "done" /\ HyperMode) =>
     \A k \in convert_to_numeric_list :
        IsSupplied(k) =>
           LET g == Groups(k)
               n == Len(g)
           IN  IF n >= 2
               THEN ns[k] = ListV([i \in 1..n |-> GroupList(k, g[i])])
               ELSE IF Len(Split(g[1], ",")) = 1 /\ k \notin keep_as_list
               THEN ns[k] = NumberOf(k, g[1])
               ELSE ns[k] = GroupList(k, g[1])

\* "5,6 7,8" came back as [[5, 6], [7, 8]], in hyperparameter mode
C13_Witness ==
  /\ pc = "done" /\ HyperMode
  /\ parsed.layer_sizes = StrV(<<"5", ",", "6", " ", "7", ",", "8">>)
  /\ ns.layer_sizes = ListV(<<ListV(<<IntV(5), IntV(6)>>),
                              ListV(<<IntV(7), IntV(8)>>)>>)

(* C13 as first stated: N groups decode into a sequence of exactly N lists
   for every N >= 1. *)
C13_GroupsEveryN ==
  (pc = "done" /\ HyperMode) =>
     \A k \in convert_to_numeric_list :
        IsSupplied(k) =>
           /\ IsList(ns[k])
           /\ Len(ns[k].l) = Len(Groups(k))
           /\ \A i \in 1..Len(ns[k].l) : ns[k].l[i] = GroupList(k, Groups(k)[i])

(* C14: outside hyperparameter mode a numeric parameter given as one
   comma-separated value comes back as the flat list of its values, ints or
   floats by the type table, and as the bare value exactly when it has one
   value and the parameter is not in keep_as_list. *)
C14_NormalFlatList ==
  (pc = "done" /\ NormalMode) =>
     \A k \in convert_to_numeric_list :
        IsSupplied(k) =>
           LET pieces == Split(SuppliedText(k), ",")
               values == [j \in 1..Len(pieces) |-> NumberOf(k, pieces[j])]
           IN  /\ IsList(ns[k]) <=> ~(Len(pieces) = 1 /\ k \notin keep_as_list)
               /\ IsList(ns[k]) => ns[k].l = values
               /\ ~IsList(ns[k]) => ns[k] = values[1]
               /\ \A j \in 1..Len(values) :
                     values[j].t = IF k \in convert_to_int_list THEN "int"
                                   ELSE "float"

\* a three-item list of ints came back as it was written
C14_Witness ==
  /\ pc = "done" /\ NormalMode
  /\ parsed.rf_max_depth = StrV(<<"1", "6", ",", "3", "2", ",", "4", "8">>)
  /\ ns.rf_max_depth = ListV(<<IntV(16), IntV(32), IntV(48)>>)

\* ------------------------------------------------------------------------
\* Properties of a training run, all model variants (SpecTrain)
\* ------------------------------------------------------------------------
\* the dataset of the last fit call of a log (the log holds one)
LastFitData(l) ==
  LET fits == OfKind(l, "fit") IN fits[Len(fits)].data

\* the union of all training and validation partitions
Combined == <<"combined", 0>>

(* C15: when a run of any model variant is done, the model that was saved
   last was fitted on the union of all training and validation partitions if
   there is more than one fold, and on the single fold's training partition
   if there is one; every fit call of the refit uses that dataset. *)
C15_RefitDataset ==
  tpc = "done" =>
     LET expected == IF num_folds > 1 THEN Combined ELSE <<"train", 0>>
         refit == OfKind(AfterScore(log), "fit")
     IN  /\ LastFitData(log) = expected
         /\ \A i \in 1..Len(refit) : refit[i].data = expected
         /\ (num_folds > 1 \/ wrapper_type = "NN") => Len(refit) >= 1

\* a random forest run of three folds ended with a fit on the union
C15_Witness ==
  /\ tpc = "done" /\ wrapper_type = "RF" /\ num_folds = 3
  /\ LastFitData(log) = Combined
  /\ Len(OfKind(AfterScore(log), "fit")) = 1

\* the time escape has shortened max_epochs
Truncated == wrapper_type = "NN" /\ max_epochs < num_epochs0

\* the fold in which the wall-clock ceiling was first found exceeded: the
\* first fold that did not complete every epoch
FirstCutFold ==
  CHOOSE f \in 0..(num_folds - 1) :
     /\ \E i \in 1..Len(accumulated) : f \notin accumulated[i]
     /\ \A g \in 0..(f - 1) :
           \A i \in 1..Len(accumulated) : g \in accumulated[i]

\* the epochs that fold had completed
CompletedWhenExceeded ==
  Cardinality({i \in 1..Len(accumulated) : FirstCutFold \in accumulated[i]})

(* C16: when the wall-clock ceiling was exceeded inside the epoch loop, in
   whichever fold, the run reaches scoring with max_epochs equal to the
   number of epochs completed when the ceiling was found exceeded, so that
   scoring ranges over exactly those epochs. *)
C16_TimeEscapeKeepsCompleted ==
  (Truncated /\ tpc = "scoring") => max_epochs = CompletedWhenExceeded

\* ------------------------------------------------------------------------
\* Properties of a method call on a trained wrapper (SpecCalls)
\* ------------------------------------------------------------------------
\* the combinations for which no uncertainty can be estimated
Unsupported(c) ==
  /\ c.op = "generate_predictions"
  /\ c.uncertainty
  /\ \/ c.model_type = "NN" /\ c.prediction_type = "classification"
     \/ c.model_type = "xgboost"
     \/ /\ c.model_type = "RF"
        /\ c.prediction_type = "classification"
        /\ c.nclasses > 2

UncertaintyWarnings ==
  {"regression only", "binary classifiers only", "not supported"}

\* the outcomes of the same call with uncertainty not requested
WithoutUncertainty(c) ==
  LET d == [c EXCEPT !.uncertainty = FALSE] IN
  { generate_predictions(d, ext) : ext \in 0..Len(PredictionBody(d).events) }

(* C17: generate_predictions with uncertainty requested for a combination
   that does not support it (neural network classification, xgboost,
   random forest with more than two classes) ends as the same call without
   uncertainty would: it raises only if an external prediction call raises,
   and otherwise it has logged a warning about uncertainty and returns the
   predictions with None as the uncertainty. *)
C17_UnsupportedUncertaintyWarns ==
  (cpc \in {"returned", "raised"} /\ Unsupported(call)) =>
    /\ \E r \in WithoutUncertainty(call) :
         /\ r.raised = result.raised
         /\ r.calls = result.calls
         /\ r.pred = result.pred
    /\ result.raised = "" =>
         /\ result.pred = "pred"
         /\ result.std = "None"
         /\ \E i \in 1..Len(result.warnings) :
              result.warnings[i] \in UncertaintyWarnings

C17_Witness ==
  /\ cpc = "returned"
  /\ Unsupported(call)
  /\ call.model_type = "xgboost"
  /\ result.std = "None"
  /\ result.warnings = <<"evaluating", "not supported">>

ResultCall == call.op \in {"get_pred_results", "get_perf_data"}

(* C20: a call of get_pred_results or get_perf_data of the neural-network
   wrapper whose epoch_label is neither 'best' nor 'baseline', or whose
   subset is none of 'train', 'valid', 'test', 'full', never returns a
   result: it raises ValueError (unless the external prediction call made
   for the full dataset has raised before). *)
C20_BadLabelOrSubsetRaises ==
  ( /\ cpc \in {"returned", "raised"}
    /\ ResultCall
    /\ \/ call.epoch_label \notin {"best", "baseline"}
       \/ call.subset \notin {"train", "valid", "test", "full"} )
  => result.raised \in {"ValueError", "external"}

\* ------------------------------------------------------------------------
\* Further properties of a training run (SpecTrain)
\* ------------------------------------------------------------------------
\* the last external call made was a fit, or a prediction that train follows
\* with another prediction: the step it belongs to did not complete
MidStep(l) ==
  /\ Len(l) > 0
  /\ \/ l[Len(l)].op = "fit"
     \/ l[Len(l)].op = "predict" /\ l[Len(l)].data[1] \in {"train", "valid"}

(* C18: in a training run of any variant, a step whose external fit or
   predict call raises leaves the run failed (the exception leaves train),
   and a failed run takes no further step: the call is not repeated and no
   later fit, predict, save or copy is made. *)
C18_ExternalFailureFatal ==
  [][ /\ tpc # "failed"
      /\ MidStep(log') => tpc' = "failed" ]_vars

C18_Witness ==
  /\ tpc = "failed"
  /\ MidStep(log)
  /\ log[Len(log)].op = "predict"

\* the parameters a step of the run changes
ChangedParams ==
  {k \in DOMAIN params : params'[k] # params[k]}
    \cup (IF max_epochs' # max_epochs THEN {"max_epochs"} ELSE {})

TransformerParams ==
  {"transformer_key", "transformer_oid", "transformer_bucket"}

(* C19: after normalisation, a step of the run changes a parameter only in
   these cases: construction of the neural-network wrapper replaces a
   layer_sizes, dropouts, weight_init_stddevs or bias_init_consts that is
   None by its default; create_transformers sets transformer_key,
   transformer_oid and transformer_bucket; the time escape of the
   neural-network train sets max_epochs to the current epoch. *)
C19_ParamsChangeOnlyByDefaults ==
  [][ \A k \in ChangedParams :
        \/ /\ tpc = "construct"
           /\ wrapper_type = "NN"
           /\ k \in LayeredParams
           /\ params[k] = None
        \/ /\ tpc = "create_transformers"
           /\ k \in TransformerParams
        \/ /\ tpc = "epoch"
           /\ wrapper_type = "NN"
           /\ k = "max_epochs"
           /\ system_LC /\ over_time'
           /\ max_epochs' = epoch ]_vars

C19_Witness ==
  /\ tpc = "done"
  /\ wrapper_type = "NN"
  /\ params.layer_sizes = ListV(<<IntV(1000), IntV(500)>>)
  /\ params.transformer_key = StrV(S_transformers_pkl)
  /\ max_epochs < num_epochs0

(* C19 as first stated: no step of the run (wrapper construction,
   create_transformers, train) changes the value of any parameter. *)
C19_ParamsNeverChange ==
  [][ChangedParams = {}]_vars

\* ------------------------------------------------------------------------
\* Properties of the fold and epoch loops (SpecTrain)
\* ------------------------------------------------------------------------
\* the epoch loop has found the wall-clock ceiling exceeded and scoring has
\* not begun
TimeEscaped ==
  /\ wrapper_type = "NN"
  /\ system_LC /\ over_time
  /\ tpc \in {"fold", "epoch"}

(* C21: once the neural-network epoch loop has found the wall-clock ceiling
   exceeded, no step taken before scoring makes an external call: the model
   is not re-initialized, and no fit and no predict is called, in any
   remaining fold. *)
C21_EscapeGoesToScoring ==
  [][TimeEscaped => log' = log]_vars

\* the calls of the fold loop: those made before the scores were computed
FoldLoop(l) ==
  LET at == {i \in 1..Len(l) : l[i] = ScoreCall}
  IN  IF at = {} THEN l
      ELSE SubSeq(l, 1, (CHOOSE i \in at : \A j \in at : i <= j) - 1)

\* the places of the fit calls on the training partition of fold k
FoldFits(l, k) ==
  {i \in 1..Len(l) : l[i].op = "fit" /\ l[i].data = TrainSet(k)}

\* the epochs whose predictions of fold k were accumulated
EpochsOf(k) == {e \in 1..Len(accumulated) : k \in accumulated[e]}

(* C22: in the fold loop of a neural-network run every fit call is a single
   increment on the fold's training partition; the first fit call of a fold
   does not restore (after fold 0 it directly follows a re-initialization of
   the model, in fold 0 no fit precedes it) and every later one in the fold
   restores; a fold has one fit call per epoch it completed.  In the fold
   loop of a random forest or xgboost run each fold that ran has exactly one
   fit call. *)
C22_FoldLoopFits ==
  (tpc \notin {"idle", "construct", "create_transformers", "start"}) =>
    LET fl == FoldLoop(log) IN
    IF wrapper_type = "NN"
    THEN /\ \A i \in 1..Len(fl) :
              fl[i].op = "fit" =>
                 /\ fl[i].nb = 1
                 /\ fl[i].data[1] = "train"
                 /\ LET k == fl[i].data[2]
                        first == \A j \in FoldFits(fl, k) : i <= j
                    IN  /\ fl[i].restore <=> ~first
                        /\ (first /\ k > 0) => fl[i - 1] = RecreateCall
                        /\ (first /\ k = 0) => OfKind(SubSeq(fl, 1, i), "recreate") = <<>>
         /\ \A k \in 0..(num_folds - 1) :
              LET n == Cardinality(FoldFits(fl, k))
              IN  IF tpc = "failed"
                  THEN n \in {Cardinality(EpochsOf(k)), Cardinality(EpochsOf(k)) + 1}
                  ELSE n = Cardinality(EpochsOf(k))
    ELSE \A k \in 0..(num_folds - 1) :
           LET n == Cardinality(FoldFits(fl, k))
           IN  /\ n <= 1
               /\ k < fold => n = 1
               /\ tpc \in {"scoring", "refit", "done"} => n = 1

\* two folds of two epochs each: four fit calls, the second and fourth restore
C22_Witness ==
  /\ wrapper_type = "NN" /\ tpc = "scoring"
  /\ num_folds = 2 /\ max_epochs = 2 /\ AllEpochsRan
  /\ LET fits == OfKind(FoldLoop(log), "fit")
     IN  /\ Len(fits) = 4
         /\ <<fits[1].restore, fits[2].restore, fits[3].restore, fits[4].restore>>
              = <<FALSE, TRUE, FALSE, TRUE>>

\* train has reset best_epoch and has not computed the scores yet
BeforeScoring == tpc \in {"fold", "epoch", "scoring"}

(* C23: within one call of train (any variant), best_epoch is None until the
   scores have been computed; it is assigned once (by the scoring step of a
   neural-network run, by the last step of a random forest or xgboost run)
   and no step changes it afterwards; a checkpoint is copied to
   best_model_dir or baseline_model_dir only when best_epoch has been
   assigned. *)
C23_BestEpochAssignedOnce ==
  [][ /\ best_epoch' # best_epoch =>
           /\ best_epoch = NoEpoch
           /\ best_epoch' # NoEpoch
           /\ tpc = IF wrapper_type = "NN" THEN "scoring" ELSE "refit"
      /\ BeforeScoring' => best_epoch' = NoEpoch
      /\ (wrapper_type = "NN" /\ tpc' \in {"refit", "refit2"}) =>
           best_epoch' # NoEpoch
      /\ tpc' = "done" => best_epoch' # NoEpoch
      /\ (best_model_dir' # NoEpoch \/ baseline_model_dir' # NoEpoch) =>
           best_epoch' # NoEpoch ]_vars

C23_Witness ==
  /\ wrapper_type = "NN" /\ tpc = "done"
  /\ best_epoch = 1
  /\ best_model_dir = 1
  /\ baseline_model_dir = 3

(* C24: after scoring in a neural-network run, best_epoch is the index of an
   epoch that was fitted and scored in this run: 0 <= best_epoch <
   max_epochs (its final value), whatever the scores and also when the time
   escape cut the run short. *)
C24_BestEpochWasFitted ==
  (wrapper_type = "NN" /\ tpc \in {"refit", "refit2", "done"}) =>
     (0 <= best_epoch /\ best_epoch < max_epochs)

\* the fit increments behind the results get_pred_results returns for
\* epoch_label 'baseline' after this run
BaselineResultIncrements ==
  PyIndex(num_epochs0,
          LabelledEpoch([NoCall EXCEPT !.epoch_label = "baseline",
                                       !.max_epochs = max_epochs,
                                       !.baseline_epoch = baseline_epoch])) + 1

(* C25: when a neural-network run is done, the checkpoint in best_model_dir
   has received best_epoch + 1 fit increments, as many as the model whose
   validation predictions gave the score at index best_epoch, and the
   checkpoint in baseline_model_dir has received as many increments as the
   epoch whose results get_pred_results returns for 'baseline'. *)
C25_CheckpointsMatchScores ==
  (wrapper_type = "NN" /\ tpc = "done") =>
     /\ best_model_dir = best_epoch + 1
     /\ baseline_model_dir = BaselineResultIncrements

\* ------------------------------------------------------------------------
\* Properties of a config file with further arguments (Spec)
\* ------------------------------------------------------------------------
\* wrapper was called with ['--config_file', path, <extra args>]
ConfigCall ==
  /\ inp.form = "list"
  /\ Len(inp.a) >= 2
  /\ inp.a[1] = Opt("config_file")

ExtraOf == SubSeq(inp.a, 3, Len(inp.a))

\* the places of option k among the extra arguments
ExtraPlaces(k) == {i \in 1..Len(ExtraOf) : ExtraOf[i] = Opt(k)}

\* the value the config file alone, or the extra arguments alone, give k
ConfigValue(k) ==
  IF k = "config_file" THEN StrV(<<"p">>) ELSE DictGet(inp.d, k)

ExtraValue(k) ==
  CASE k = "bucket" -> StrV(<<"b">>)
    [] k = "rf_estimators" -> IntV(9)
    [] k = "rerun" -> BoolV(TRUE)

(* C26: for wrapper called with ['--config_file', path, <extra args>], where
   no option occurs twice among the extra arguments, normalisation returns;
   every parameter given both in the config file and among the extra
   arguments has the command-line value in the result, and every parameter
   given only in the config file has its config-file value. *)
C26_CommandLineOverridesConfig ==
  ( /\ ConfigCall
    /\ pc \in {"done", "raised"}
    /\ \A k \in Dests : Cardinality(ExtraPlaces(k)) <= 1 )
  => /\ pc = "done"
     /\ \A k \in {inp.d[i].k : i \in 1..Len(inp.d)} \cup {"config_file"} :
           ns[k] = IF ExtraPlaces(k) # {} THEN ExtraValue(k) ELSE ConfigValue(k)

\* ------------------------------------------------------------------------
\* Properties of boolean flags in a mapping (Spec)
\* ------------------------------------------------------------------------
\* the top-level items of the mapping that set one of the parser's boolean
\* flags (the eight store_true and the three store_false ones) to a boolean
FlagItems ==
  {i \in 1..Len(inp.d) : /\ inp.d[i].k \in StoreTrueDests \cup StoreFalseDests
                         /\ inp.d[i].v \in {BoolV(TRUE), BoolV(FALSE)}}

OnlyFlags == inp.form = "dict" /\ inp.d # <<>> /\ FlagItems = 1..Len(inp.d)

\* C27: normalising a mapping that sets a boolean flag (default-false or
\* default-true) to a boolean v returns a parameter object in which the flag
\* equals v; a mapping of nothing but such flags is always accepted.
C27_FlagsRoundTrip ==
  /\ (OnlyFlags /\ pc \in {"done", "raised"}) => pc = "done"
  /\ (inp.form = "dict" /\ pc = "done")
       => \A i \in FlagItems : ns[inp.d[i].k] = inp.d[i].v

C27_Witness ==
  /\ OnlyFlags /\ pc = "done"
  /\ \E i, j \in FlagItems :
        /\ inp.d[i].k \in StoreFalseDests /\ inp.d[i].v = BoolV(FALSE)
        /\ inp.d[j].k \in StoreTrueDests /\ inp.d[j].v = BoolV(TRUE)
        /\ ns[inp.d[i].k] = BoolV(FALSE) /\ ns[inp.d[j].k] = BoolV(TRUE)

\* ------------------------------------------------------------------------
\* Properties of the layer parameters after construction (SpecTrain)
\* ------------------------------------------------------------------------
Constructed == wrapper_type = "NN" /\ tpc \notin {"idle", "construct"}

\* the layer parameters a DCNNModelWrapper of this featurizer uses
LayerParamsUsed ==
  IF params.featurizer = StrV(S_graphconv)
  THEN {"layer_sizes", "dropouts"}
  ELSE {"layer_sizes", "dropouts", "weight_init_stddevs", "bias_init_consts"}

(* C28: after DCNNModelWrapper construction from a parameter object that
   normalisation accepted, layer_sizes, dropouts, and for a featurizer other
   than graphconv weight_init_stddevs and bias_init_consts, are not None and
   all have the same length. *)
C28_LayerParamsFilled ==
  Constructed =>
     /\ \A k \in LayerParamsUsed : IsList(params[k])
     /\ \A a, b \in LayerParamsUsed : Len(params[a].l) = Len(params[b].l)

\* ------------------------------------------------------------------------
\* Properties of normalising a returned parameter object (Spec)
\* ------------------------------------------------------------------------
\* wrapper(P) has ended, P being the parameter object of an earlier call
WrappedAgain == inp.form = "namespace" /\ pc \in {"done", "raised"}

(* C29: for every parameter object P that wrapper returned, wrapper(P)
   succeeds and returns a parameter object equal to P. *)
C29_Idempotent ==
  WrappedAgain =>
     /\ pc = "done"
     /\ \A i \in 1..Len(inp.d) : ns[inp.d[i].k] = inp.d[i].v

\* ------------------------------------------------------------------------
\* Properties of the two decodings of a numeric parameter (Spec)
\* ------------------------------------------------------------------------
\* k was supplied with one group: the text postprocess_args decodes has no
\* blank
SingleGroup(k) == IsSupplied(k) /\ ~Contains(SuppliedText(k), " ")

\* what the decoding of normal mode and of hyperparameter mode make of the
\* text supplied for k
NormalDecoded(k) == NormalNumeric(k, StrV(SuppliedText(k)))
HyperDecoded(k) == HyperNumeric(k, StrV(SuppliedText(k)))

(* C30: for every numeric list parameter supplied as a single group (no
   blank) that normal mode accepts, hyperparameter mode and normal mode
   decode it to the same value, with the same decision between a list and a
   scalar: whichever mode the run was in, the value returned is the value
   the other mode's decoding gives. *)
C30_DecodingsAgree ==
  /\ (pc = "done" /\ HyperMode) =>
        \A k \in convert_to_numeric_list :
           (SingleGroup(k) /\ NormalDecoded(k).ok) =>
              ns[k] = NormalDecoded(k).val
  /\ (pc = "done" /\ NormalMode) =>
        \A k \in convert_to_numeric_list :
           SingleGroup(k) =>
              HyperDecoded(k).ok /\ HyperDecoded(k).val = ns[k]

\* in hyperparameter mode "7" came back as 7 for a parameter that is not kept
\* as a list, and "16,32" as [16, 32] for one that is
C30_Witness ==
  /\ pc = "done" /\ HyperMode
  /\ \E k \in convert_to_numeric_list \ keep_as_list :
        /\ SingleGroup(k) /\ SuppliedCount(k) = 1
        /\ ~IsList(ns[k]) /\ ns[k] = NormalDecoded(k).val
  /\ \E k \in keep_as_list :
        /\ SingleGroup(k) /\ SuppliedCount(k) = 1
        /\ IsList(ns[k]) /\ ns[k] = NormalDecoded(k).val

\* the value supplied for k has no blank as it was given; it may have "@"
NoSpaceGiven(k) == IsSupplied(k) /\ ~Contains(parsed[k].s, " ")

(* C30 as first stated: every value given without a space that normal mode
   accepts is decoded to the same value by both modes. *)
C30_NoSpaceDecodingsAgree ==
  /\ (pc = "done" /\ HyperMode) =>
        \A k \in convert_to_numeric_list :
           (NoSpaceGiven(k) /\ NormalDecoded(k).ok) =>
              ns[k] = NormalDecoded(k).val
  /\ (pc = "done" /\ NormalMode) =>
        \A k \in convert_to_numeric_list :
           NoSpaceGiven(k) =>
              HyperDecoded(k).ok /\ HyperDecoded(k).val = ns[k]

====
